---- MODULE Spec2Model ----
(***************************************************************************)
(* VirtualRollCall: the in-memory attendance store (backend/utils/         *)
(* database.js) and the request handlers that call it (routes and          *)
(* controllers).  Every handler is one atomic step, as the single-threaded *)
(* host runs it, except createUser, which awaits the password hash.        *)
(***************************************************************************)
EXTENDS Integers, Sequences, FiniteSets, TLC

(***************************************************************************)
(* Bounds of the model (not program constants).                            *)
(***************************************************************************)
MaxAttendance == 2
MaxUsers == 5
MaxClasses == 2
MaxStudents == 4
MaxSubjects == 3
MaxSchedules == 3
MaxCreated == 1

(***************************************************************************)
(* JavaScript values.  NaN is what parseInt and Math.max yield for a value *)
(* that is no number; Undefined is a field that was never set.             *)
(***************************************************************************)
NaN == 0 - 1
Undefined == 0 - 2

\* A request value before parsing: a JSON number, a decimal string, or absent.
Num(n) == [t |-> "number", v |-> n]
Str(n) == [t |-> "string", v |-> n]
Absent == [t |-> "undefined", v |-> 0]

\* parseInt(x): a number or a decimal string yields the number, anything else NaN.
ParseInt(raw) == IF raw.t \in {"number", "string"} THEN raw.v ELSE NaN

\* a === b on numbers: NaN equals nothing, itself included.
JsEq(a, b) == a # NaN /\ b # NaN /\ a = b

\* A number in a condition: 0, NaN and undefined count as false.
Truthy(n) == n # 0 /\ n # NaN /\ n # Undefined

\* ++counter: NaN stays NaN.
Inc(c) == IF c = NaN THEN NaN ELSE c + 1

\* Math.max(...ids, 0): one id that is undefined (or NaN) makes the result NaN.
RECURSIVE MathMax(_)
MathMax(ids) ==
  IF ids = <<>> THEN 0
  ELSE LET rest == MathMax(Tail(ids))
           h == Head(ids)
       IN  IF h = Undefined \/ h = NaN \/ rest = NaN THEN NaN
           ELSE IF h > rest THEN h ELSE rest

\* array.findIndex(pred): the first index that satisfies it, 0 for JavaScript's -1.
FindIndex(s, P(_)) ==
  IF \E i \in 1..Len(s) : P(s[i])
  THEN CHOOSE i \in 1..Len(s) : P(s[i]) /\ \A j \in 1..(i - 1) : ~P(s[j])
  ELSE 0

\* array.includes(x) on numbers.
Includes(s, x) == \E i \in 1..Len(s) : JsEq(s[i], x)

\* array.map(f)
Map(s, f(_)) == [i \in 1..Len(s) |-> f(s[i])]

\* array.filter(pred)
Filter(s, P(_)) == SelectSeq(s, P)

\* array.splice(i, 1)
RemoveAt(s, i) == [j \in 1..(Len(s) - 1) |-> IF j < i THEN s[j] ELSE s[j + 1]]

\* array.flatMap over sequences of sequences
RECURSIVE Flatten(_)
Flatten(ss) == IF ss = <<>> THEN <<>> ELSE Head(ss) \o Flatten(Tail(ss))

Range(s) == {s[i] : i \in 1..Len(s)}

\* str.toLowerCase() on the names the model uses.
ToLowerCase(s) ==
  CASE s = "ANN" -> "ann"
    [] s = "A@X.EDU" -> "a@x.edu"
    [] OTHER -> s

VARIABLES
  users,       \* database.users
  classes,     \* database.classes (each with its embedded students)
  subjects,    \* database.subjects
  schedules,   \* database.schedules
  attendance,  \* database.attendance
  settings,    \* database.settings
  counters,    \* the id counters
  pending,     \* createUser calls suspended at the password hash
  exported,    \* the object the last exportDatabase returned
  response,    \* the outcome of the last request or store call
  hist         \* history of the run, read by the properties only

vars == <<users, classes, subjects, schedules, attendance, settings, counters,
          pending, exported, response, hist>>

(***************************************************************************)
(* The store after initializeDatabase, scaled down: three users, two       *)
(* subjects, one class of two students, two schedule entries, one          *)
(* attendance record.                                                      *)
(***************************************************************************)
User(id, username, email, role) ==
  [id |-> id, username |-> username, email |-> email, role |-> role, isActive |-> TRUE]

\* The name and the e-mail address that a request body gives for a student; the
\* studentIds of the model stand for whole bodies.  email is optional in both routes.
StudentName(studentId) ==
  CASE studentId = "ST1" -> "Ann"
    [] studentId = "ST2" -> "Bob"
    [] studentId = "ST3" -> "Cy"
    [] studentId = "ST4" -> "Dan"
    [] OTHER -> "Eve"

\* undefined in a field that otherwise holds a string
NoString == "<undefined>"

StudentEmail(studentId) ==
  CASE studentId = "ST1" -> "a@x.edu"
    [] studentId = "ST2" -> "b@x.edu"
    [] studentId = "ST4" -> "d@x.edu"
    [] OTHER -> NoString

Student(id, studentId) ==
  [id |-> id, studentId |-> studentId, name |-> StudentName(studentId),
   email |-> StudentEmail(studentId), isActive |-> TRUE]

SeedUsers ==
  << User(1, "admin", "principal@x.edu", "principal"),
     User(2, "teacher1", "t1@x.edu", "teacher"),
     User(3, "teacher2", "t2@x.edu", "teacher") >>

SeedSubjects ==
  << [id |-> 1, code |-> "MATH", isActive |-> TRUE],
     [id |-> 2, code |-> "PHYS", isActive |-> TRUE] >>

SeedClasses ==
  << [id |-> 1, name |-> "10A", classTeacher |-> 2, maxStudents |-> 3, isActive |-> TRUE,
      students |-> << Student(1, "ST1"), Student(2, "ST2") >>] >>

SeedSchedules ==
  << [id |-> 1, teacherId |-> 2, classId |-> 1, subjectId |-> 1, isActive |-> TRUE],
     [id |-> 2, teacherId |-> 3, classId |-> 1, subjectId |-> 2, isActive |-> TRUE] >>

\* Instants stand for ISO timestamps in their order; the seeded records are stamped
\* with an instant before every request.
Epoch == 0

SeedAttendance ==
  << [id |-> 1, teacherId |-> 2, classId |-> 1, subjectId |-> 1, date |-> 1,
      absentStudents |-> <<>>, presentStudents |-> <<1, 2>>, totalStudents |-> 2,
      submittedAt |-> Epoch, createdAt |-> Epoch, updatedAt |-> Epoch] >>

SeedSettings == [schoolName |-> "Virtual Academy"]

SeedCounters ==
  [users |-> Len(SeedUsers), classes |-> Len(SeedClasses), subjects |-> Len(SeedSubjects),
   schedules |-> Len(SeedSchedules), attendance |-> Len(SeedAttendance),
   students |-> Len(SeedClasses[1].students)]

Collections == {"users", "classes", "subjects", "schedules", "attendance", "students"}

\* A response: the handler, the HTTP status, the ids and the body keys it concerns,
\* the change events that the handler emitted before it answered, and what a query
\* returned.
NoResponse ==
  [op |-> "none", status |-> 0, ids |-> {}, keys |-> {}, events |-> <<>>, body |-> <<>>]
Resp(op, status) == [NoResponse EXCEPT !.op = op, !.status = status]
RespIds(op, status, ids) == [Resp(op, status) EXCEPT !.ids = ids]

\* io.emit(event, ...) of the routes, socketService.emitToClass(.., event, ..) and
\* emitToPrincipals(event, ..) of the controllers, ahead of the response; the
\* socket server is taken to be attached.
Emitted(resp, event) == [resp EXCEPT !.events = Append(@, event)]

NotExported == [taken |-> FALSE, live |-> FALSE, data |-> <<>>]

\* The (classId, subjectId, date) of an attendance record.
Triple(r) == <<r.classId, r.subjectId, r.date>>

\* The dates of the model stand for 'YYYY-MM-DD' strings in their order; today is
\* the second of them.
Today == 2

InitHist ==
  [firstId |-> [t \in {Triple(r) : r \in Range(SeedAttendance)} |->
               (CHOOSE r \in Range(SeedAttendance) : Triple(r) = t).id],
   writeRoster |-> <<>>,
   issued |-> [c \in Collections |-> 1..SeedCounters[c]],
   reissued |-> {},
   imported |-> FALSE,
   phase |-> "none",
   saved |-> NotExported,
   before |-> SeedClasses,
   deleted |-> {},
   twice |-> {},
   last |-> <<>>,
   requester |-> 0,
   tokens |-> {}]

Init ==
  /\ users = SeedUsers
  /\ classes = SeedClasses
  /\ subjects = SeedSubjects
  /\ schedules = SeedSchedules
  /\ attendance = SeedAttendance
  /\ settings = SeedSettings
  /\ counters = SeedCounters
  /\ pending = {}
  /\ exported = NotExported
  /\ response = NoResponse
  /\ hist = InitHist

(***************************************************************************)
(* Store lookups (backend/utils/database.js).                              *)
(***************************************************************************)
NoRecord == [id |-> 0]

\* A faulty FindById that looks among the active records only.
FindActiveById(coll, id) ==
  LET i == FindIndex(coll, LAMBDA x : JsEq(x.id, id) /\ x.isActive)
  IN  IF i = 0 THEN NoRecord ELSE coll[i]

\* database.X.find(x => x.id === parseInt(id)), NoRecord for undefined.
FindById(coll, id) ==
  LET i == FindIndex(coll, LAMBDA x : JsEq(x.id, id))
  IN  IF i = 0 THEN NoRecord ELSE coll[i]

findUserById(id) == FindById(users, id)
findClassById(id) == FindById(classes, id)
findSubjectById(id) == FindById(subjects, id)

\* classInfo.students.filter(s => s.isActive)
ActiveStudents(cls) == Filter(cls.students, LAMBDA s : s.isActive)

ActiveStudentIds(cls) == Map(ActiveStudents(cls), LAMBDA s : s.id)

\* getTeacherSchedule(teacherId): the teacher's active schedule entries.
getTeacherSchedule(teacherId) ==
  Filter(schedules, LAMBDA e : JsEq(e.teacherId, teacherId) /\ e.isActive)

(***************************************************************************)
(* Attendance operations of the store.                                     *)
(***************************************************************************)
\* addAttendanceRecord: the index of the record of the same class, subject and date.
ExistingIndex(att, data) ==
  FindIndex(att, LAMBDA r : /\ JsEq(r.classId, data.classId)
                            /\ JsEq(r.subjectId, data.subjectId)
                            /\ r.date = data.date)

\* A faulty PresentStudents: the absent list is not taken out.
PresentStudentsAll(classInfo, absentStudents) ==
  IF classInfo.id = 0 THEN <<>>
  ELSE Map(Filter(classInfo.students, LAMBDA s : s.isActive), LAMBDA s : s.id)

\* The active students of the class that are not in the absent list.
PresentStudents(classInfo, absentStudents) ==
  IF classInfo.id = 0 THEN <<>>
  ELSE Map(Filter(classInfo.students,
                  LAMBDA s : s.isActive /\ ~Includes(absentStudents, s.id)),
           LAMBDA s : s.id)

TotalStudents(classInfo) ==
  IF classInfo.id = 0 THEN 0 ELSE Len(ActiveStudents(classInfo))

\* A faulty RecordId: every write takes a fresh id.
RecordIdFresh(att, cnt, existingIndex) == Inc(cnt.attendance)

\* A faulty RecordId: a new record is numbered by the length of the collection.
RecordIdByLength(att, cnt, existingIndex) ==
  IF existingIndex # 0 THEN att[existingIndex].id ELSE Len(att) + 1

\* The id of the record addAttendanceRecord writes.
RecordId(att, cnt, existingIndex) ==
  IF existingIndex # 0 THEN att[existingIndex].id ELSE Inc(cnt.attendance)

\* addAttendanceRecord(attendanceData) on the collection att and the counters
\* cnt: the collection, the counters and the record it returns.
\* The clock of the specifications that do not follow time: every new Date() gives
\* the same instant.
ClockStill == <<Epoch, Epoch, Epoch>>

\* addAttendanceRecord(attendanceData); clock holds what the three new Date() of the
\* record literal give, in their order: submittedAt, createdAt, updatedAt.
addAttendanceRecordAt(att, cnt, data, clock) ==
  LET existingIndex == ExistingIndex(att, data)
      classInfo == findClassById(data.classId)
      record == [id |-> RecordId(att, cnt, existingIndex),
                 teacherId |-> data.teacherId,
                 classId |-> data.classId,
                 subjectId |-> data.subjectId,
                 date |-> data.date,
                 absentStudents |-> data.absentStudents,
                 presentStudents |-> PresentStudents(classInfo, data.absentStudents),
                 totalStudents |-> TotalStudents(classInfo),
                 submittedAt |-> clock[1],
                 createdAt |-> IF existingIndex # 0 THEN att[existingIndex].createdAt
                               ELSE clock[2],
                 updatedAt |-> clock[3]]
  IN  IF existingIndex # 0
      THEN [attendance |-> [att EXCEPT ![existingIndex] = record],
            counters |-> cnt, record |-> record]
      ELSE [attendance |-> Append(att, record),
            counters |-> [cnt EXCEPT !.attendance = Inc(@)], record |-> record]

addAttendanceRecord(att, cnt, data) == addAttendanceRecordAt(att, cnt, data, ClockStill)

\* A faulty Merged: every update stamps the record with today's date.
MergedStampsDate(old, updateData) ==
  [id |-> old.id, teacherId |-> old.teacherId, classId |-> old.classId,
   subjectId |-> old.subjectId, date |-> Today,
   absentStudents |-> IF "absentStudents" \in updateData.keys
                      THEN updateData.absentStudents ELSE old.absentStudents]

\* The fields updateAttendanceRecord takes from updateData, the record's otherwise.
Merged(old, updateData) ==
  [id |-> IF "id" \in updateData.keys THEN updateData.id ELSE old.id,
   teacherId |-> old.teacherId,
   classId |-> IF "classId" \in updateData.keys THEN updateData.classId ELSE old.classId,
   subjectId |-> IF "subjectId" \in updateData.keys THEN updateData.subjectId
                 ELSE old.subjectId,
   date |-> IF "date" \in updateData.keys THEN updateData.date ELSE old.date,
   absentStudents |-> IF "absentStudents" \in updateData.keys
                      THEN updateData.absentStudents ELSE old.absentStudents]

\* updateAttendanceRecord(id, updateData), for a record that exists at recordIndex.
updateAttendanceRecord(att, recordIndex, updateData) ==
  LET old == att[recordIndex]
      \* updateData.classId || record.classId
      classInfo == findClassById(IF "classId" \in updateData.keys
                                    /\ Truthy(updateData.classId)
                                 THEN updateData.classId ELSE old.classId)
      merged == Merged(old, updateData)
      record == [id |-> merged.id,
                 teacherId |-> merged.teacherId,
                 classId |-> merged.classId,
                 subjectId |-> merged.subjectId,
                 date |-> merged.date,
                 absentStudents |-> merged.absentStudents,
                 presentStudents |-> PresentStudents(classInfo, merged.absentStudents),
                 totalStudents |-> TotalStudents(classInfo),
                 submittedAt |-> old.submittedAt,
                 createdAt |-> old.createdAt,
                 updatedAt |-> Epoch]
  IN  [att EXCEPT ![recordIndex] = record]

\* deleteAttendanceRecord(id), for a record that exists at recordIndex.
deleteAttendanceRecord(att, recordIndex) == RemoveAt(att, recordIndex)

\* database.attendance.findIndex(record => record.id === parseInt(id))
RecordIndex(att, id) == FindIndex(att, LAMBDA r : JsEq(r.id, id))

(***************************************************************************)
(* Attendance requests.  u is req.user, the record authenticateToken found *)
(* for the token's user.                                                   *)
(***************************************************************************)
AttendanceFrame == UNCHANGED <<users, classes, subjects, schedules, settings, pending, exported>>

Rejected(op, status) ==
  /\ response' = Resp(op, status)
  /\ UNCHANGED <<users, classes, subjects, schedules, attendance, settings, counters,
                 pending, exported>>

\* The teacher teaches this subject to this class, or is the class teacher.
HasPermission(u, classData, classId, subjectId) ==
  \/ \E i \in 1..Len(getTeacherSchedule(u.id)) :
        /\ JsEq(getTeacherSchedule(u.id)[i].classId, classId)
        /\ JsEq(getTeacherSchedule(u.id)[i].subjectId, subjectId)
  \/ JsEq(classData.classTeacher, u.id)

\* absentStudents.filter(id => !activeStudentIds.includes(parseInt(id)))
InvalidStudentIds(classData, absentStudents) ==
  Filter(absentStudents, LAMBDA id : ~Includes(ActiveStudentIds(classData), id))

AttendanceData(u, classId, subjectId, date, absentStudents) ==
  [teacherId |-> u.id, classId |-> classId, subjectId |-> subjectId, date |-> date,
   absentStudents |-> absentStudents]

Accepted(op, status, result) ==
  /\ attendance' = result.attendance
  /\ counters' = result.counters
  /\ response' = Emitted(RespIds(op, status, {result.record.id}), "attendanceUpdated")
  /\ AttendanceFrame

\* router.post('/') of routes/attendance.js, with the clock of its store call
PostAttendanceAt(u, classId, subjectId, date, absentStudents, clock) ==
  LET op == "postAttendance"
      classData == findClassById(ParseInt(classId))
      subjectData == findSubjectById(ParseInt(subjectId))
  IN  IF \/ classId.t # "number" \/ ~Truthy(classId.v)
         \/ subjectId.t # "number" \/ ~Truthy(subjectId.v)
         \/ date = Undefined
      THEN Rejected(op, 400)
      ELSE IF classData.id = 0 \/ subjectData.id = 0 THEN Rejected(op, 404)
      ELSE IF u.role = "teacher" /\ ~HasPermission(u, classData, classId.v, subjectId.v)
      THEN Rejected(op, 403)
      ELSE IF InvalidStudentIds(classData, absentStudents) # <<>> THEN Rejected(op, 400)
      ELSE IF date > Today THEN Rejected(op, 400)
      ELSE Accepted(op, 201,
             addAttendanceRecordAt(attendance, counters,
               AttendanceData(u, classId.v, subjectId.v, date, absentStudents), clock))

PostAttendance(u, classId, subjectId, date, absentStudents) ==
  PostAttendanceAt(u, classId, subjectId, date, absentStudents, ClockStill)

\* submitAttendance of controllers/attendanceController.js: the ids may be strings,
\* and a string id never equals (===) a schedule entry's number.
SubmitAttendanceAt(u, classId, subjectId, date, absentStudents, clock) ==
  LET op == "submitAttendance"
      classData == findClassById(ParseInt(classId))
      subjectData == findSubjectById(ParseInt(subjectId))
      strictClassId == IF classId.t = "number" THEN classId.v ELSE NaN
      strictSubjectId == IF subjectId.t = "number" THEN subjectId.v ELSE NaN
  IN  IF classId.t = "undefined" \/ subjectId.t = "undefined" \/ date = Undefined
      THEN Rejected(op, 400)
      ELSE IF date > Today THEN Rejected(op, 400)
      ELSE IF classData.id = 0 \/ subjectData.id = 0 THEN Rejected(op, 404)
      ELSE IF u.role = "teacher"
              /\ ~HasPermission(u, classData, strictClassId, strictSubjectId)
      THEN Rejected(op, 403)
      ELSE IF InvalidStudentIds(classData, absentStudents) # <<>> THEN Rejected(op, 400)
      ELSE Accepted(op, 201,
             addAttendanceRecordAt(attendance, counters,
               AttendanceData(u, ParseInt(classId), ParseInt(subjectId), date,
                              absentStudents), clock))

SubmitAttendance(u, classId, subjectId, date, absentStudents) ==
  SubmitAttendanceAt(u, classId, subjectId, date, absentStudents, ClockStill)

\* The loop of bulkSubmitAttendance: addAttendanceRecord for each item in turn,
\* nothing validated.
RECURSIVE BulkFold(_, _, _, _, _)
BulkFold(u, items, att, cnt, ids) ==
  IF items = <<>> THEN [attendance |-> att, counters |-> cnt, ids |-> ids]
  ELSE LET item == Head(items)
           r == addAttendanceRecord(att, cnt,
                  AttendanceData(u, ParseInt(item.classId), ParseInt(item.subjectId),
                                 item.date, item.absentStudents))
       IN  BulkFold(u, Tail(items), r.attendance, r.counters, ids \cup {r.record.id})

\* bulkSubmitAttendance of controllers/attendanceController.js
BulkSubmitAttendance(u, items) ==
  LET op == "bulkSubmitAttendance"
      result == BulkFold(u, items, attendance, counters, {})
  IN  IF items = <<>> THEN Rejected(op, 400)
      ELSE /\ attendance' = result.attendance
           /\ counters' = result.counters
           /\ response' = RespIds(op, 201, result.ids)
           /\ AttendanceFrame

\* router.put('/:id') of routes/attendance.js (updateAttendance of the controller is
\* the same): body.absentStudents is given or not.
PutAttendance(u, id, hasAbsent, absentStudents) ==
  LET op == "putAttendance"
      recordId == ParseInt(id)
      recordIndex == RecordIndex(attendance, recordId)
      existingRecord == attendance[recordIndex]
      classData == findClassById(existingRecord.classId)
      updateData == [keys |-> IF hasAbsent THEN {"absentStudents"} ELSE {},
                     absentStudents |-> absentStudents]
  IN  IF recordId = NaN THEN Rejected(op, 400)
      ELSE IF recordIndex = 0 THEN Rejected(op, 404)
      ELSE IF u.role = "teacher" /\ ~JsEq(existingRecord.teacherId, u.id)
      THEN Rejected(op, 403)
      \* classData.students of a class that does not exist throws: caught, 500
      ELSE IF hasAbsent /\ classData.id = 0 THEN Rejected(op, 500)
      ELSE IF hasAbsent /\ InvalidStudentIds(classData, absentStudents) # <<>>
      THEN Rejected(op, 400)
      ELSE /\ attendance' = updateAttendanceRecord(attendance, recordIndex, updateData)
           /\ response' = Emitted([RespIds(op, 200, {recordId})
                                       EXCEPT !.keys = updateData.keys],
                                    "attendanceUpdated")
           /\ UNCHANGED counters
           /\ AttendanceFrame

\* router.delete('/:id') of routes/attendance.js (deleteAttendance of the controller
\* is the same).
DeleteAttendance(u, id) ==
  LET op == "deleteAttendance"
      recordId == ParseInt(id)
      recordIndex == RecordIndex(attendance, recordId)
      existingRecord == attendance[recordIndex]
  IN  IF recordId = NaN THEN Rejected(op, 400)
      ELSE IF recordIndex = 0 THEN Rejected(op, 404)
      ELSE IF u.role = "teacher" /\ ~JsEq(existingRecord.teacherId, u.id)
      THEN Rejected(op, 403)
      ELSE /\ attendance' = deleteAttendanceRecord(attendance, recordIndex)
           /\ response' = Emitted(RespIds(op, 200, {recordId}), "attendanceDeleted")
           /\ UNCHANGED counters
           /\ AttendanceFrame

\* A direct call updateAttendanceRecord(id, updateData) of the store's exported
\* function, with any updateData.
CallUpdateAttendanceRecord(id, updateData) ==
  LET op == "updateAttendanceRecord"
      recordIndex == RecordIndex(attendance, id)
  IN  IF recordIndex = 0 THEN Rejected(op, 404)
      ELSE /\ attendance' = updateAttendanceRecord(attendance, recordIndex, updateData)
           /\ response' = [RespIds(op, 200, {id}) EXCEPT !.keys = updateData.keys]
           /\ UNCHANGED counters
           /\ AttendanceFrame

\* The users a request can be authenticated as.
ActiveUsers == {users[i] : i \in {j \in 1..Len(users) : users[j].isActive}}

(***************************************************************************)
(* Class and student operations of the store and their requests            *)
(* (routes/classes.js; only a principal passes requirePrincipal).          *)
(***************************************************************************)
ClassFrame == UNCHANGED <<users, subjects, schedules, attendance, settings, pending, exported>>

\* database.classes.findIndex(cls => cls.id === parseInt(id))
ClassIndex(id) == FindIndex(classes, LAMBDA c : JsEq(c.id, id))

HasStudents(cls) == "students" \in DOMAIN cls

\* createClass(classData)
createClass(classData) ==
  [id |-> Inc(counters.classes), name |-> classData.name,
   classTeacher |-> classData.classTeacher, maxStudents |-> classData.maxStudents,
   isActive |-> TRUE, students |-> classData.students]

\* The teacher named as class teacher is an active user with role teacher.
ValidTeacher(classTeacher) ==
  LET teacher == findUserById(classTeacher)
  IN  teacher.id # 0 /\ teacher.role = "teacher" /\ teacher.isActive

\* processedStudents of router.post('/'): the students as given, marked active; no
\* id is set on them.
ProcessedStudents(studentIds) ==
  Map(studentIds, LAMBDA sid : Student(Undefined, sid))

\* router.post('/') of routes/classes.js; classTeacher 0 stands for none given.  The
\* number of students is not compared with maxStudents.
PostClass(name, classTeacher, maxStudents, studentIds) ==
  LET op == "postClass"
      newClass == createClass([name |-> name, classTeacher |-> classTeacher,
                               maxStudents |-> maxStudents,
                               students |-> ProcessedStudents(studentIds)])
  IN  IF maxStudents < 1 \/ maxStudents > 50 THEN Rejected(op, 400)
      ELSE IF \E k \in 1..Len(classes) :
                classes[k].isActive /\ ToLowerCase(classes[k].name) = ToLowerCase(name)
      THEN Rejected(op, 409)
      ELSE IF Truthy(classTeacher) /\ ~ValidTeacher(classTeacher) THEN Rejected(op, 400)
      ELSE /\ classes' = Append(classes, newClass)
           /\ counters' = [counters EXCEPT !.classes = Inc(@)]
           /\ response' = RespIds(op, 201, {newClass.id})
           /\ ClassFrame

\* router.put('/:id') of routes/classes.js with body {maxStudents}; the value is
\* stored as given, whatever the enrolment.
PutClass(id, maxStudents) ==
  LET op == "putClass"
      classId == ParseInt(id)
      classIndex == ClassIndex(classId)
  IN  IF classId = NaN THEN Rejected(op, 400)
      ELSE IF classIndex = 0 THEN Rejected(op, 404)
      ELSE /\ classes' = [classes EXCEPT ![classIndex].maxStudents = maxStudents]
           /\ response' = RespIds(op, 200, {classId})
           /\ UNCHANGED counters
           /\ ClassFrame

\* router.delete('/:id') of routes/classes.js, deleteClass(id)
DeleteClass(id) ==
  LET op == "deleteClass"
      classId == ParseInt(id)
      classIndex == ClassIndex(classId)
  IN  IF classId = NaN THEN Rejected(op, 400)
      ELSE IF classIndex = 0 THEN Rejected(op, 404)
      ELSE /\ classes' = [classes EXCEPT ![classIndex].isActive = FALSE]
           /\ response' = RespIds(op, 200, {classId})
           /\ UNCHANGED counters
           /\ ClassFrame

\* The class is at (or above) its capacity.
ClassFull(classData) == Len(ActiveStudents(classData)) >= classData.maxStudents

\* router.post('/:id/students') of routes/classes.js, addStudentToClass
PostStudent(id, studentId) ==
  LET op == "postStudent"
      classId == ParseInt(id)
      classIndex == ClassIndex(classId)
      classData == classes[classIndex]
      student == Student(Inc(counters.students), studentId)
  IN  IF classId = NaN THEN Rejected(op, 400)
      ELSE IF classIndex = 0 THEN Rejected(op, 404)
      \* classData.students of a class without the array throws: caught, 500
      ELSE IF ~HasStudents(classData) THEN Rejected(op, 500)
      ELSE IF \E k \in 1..Len(classData.students) :
                classData.students[k].studentId = studentId
                /\ classData.students[k].isActive
      THEN Rejected(op, 409)
      ELSE IF ClassFull(classData) THEN Rejected(op, 400)
      ELSE /\ classes' = [classes EXCEPT ![classIndex].students = Append(@, student)]
           /\ counters' = [counters EXCEPT !.students = Inc(@)]
           /\ response' = RespIds(op, 201, {student.id})
           /\ ClassFrame

\* router.delete('/:classId/students/:studentId'), removeStudentFromClass
DeleteStudent(id, sid) ==
  LET op == "deleteStudent"
      classId == ParseInt(id)
      studentId == ParseInt(sid)
      classIndex == ClassIndex(classId)
      classData == classes[classIndex]
      studentIndex == FindIndex(classData.students, LAMBDA st : JsEq(st.id, studentId))
  IN  IF classId = NaN \/ studentId = NaN THEN Rejected(op, 400)
      ELSE IF classIndex = 0 THEN Rejected(op, 404)
      ELSE IF ~HasStudents(classData) THEN Rejected(op, 500)
      ELSE IF studentIndex = 0 THEN Rejected(op, 404)
      ELSE /\ classes' = [classes EXCEPT ![classIndex].students[studentIndex].isActive = FALSE]
           /\ response' = RespIds(op, 200, {studentId})
           /\ UNCHANGED counters
           /\ ClassFrame

(***************************************************************************)
(* Export, import and re-initialisation of the store.                      *)
(***************************************************************************)
\* The five collections and the settings as one object.
Snapshot ==
  [users |-> users, classes |-> classes, subjects |-> subjects, schedules |-> schedules,
   attendance |-> attendance, settings |-> settings]

\* The object exportDatabase returned.  It is a shallow copy: it holds the store's
\* own arrays, so it shows their later changes for as long as the store keeps them
\* (live, and nothing of its own to record); once the store takes other arrays it
\* keeps what the old ones held (data).
ExportedData == IF exported.live THEN Snapshot ELSE exported.data

Frozen ==
  IF exported.taken /\ exported.live
  THEN [taken |-> TRUE, live |-> FALSE, data |-> Snapshot]
  ELSE exported

\* exportDatabase()
ExportDatabase ==
  /\ exported' = [taken |-> TRUE, live |-> TRUE, data |-> <<>>]
  /\ response' = Resp("exportDatabase", 200)
  /\ UNCHANGED <<users, classes, subjects, schedules, attendance, settings, counters,
                 pending>>

\* initializeDatabase(): the store and the counters start over.
InitializeDatabase ==
  /\ users' = SeedUsers
  /\ classes' = SeedClasses
  /\ subjects' = SeedSubjects
  /\ schedules' = SeedSchedules
  /\ attendance' = SeedAttendance
  /\ settings' = SeedSettings
  /\ counters' = SeedCounters
  /\ exported' = Frozen
  /\ response' = Resp("initializeDatabase", 200)
  /\ UNCHANGED pending

Ids(coll) == Map(coll, LAMBDA x : x.id)

\* database.classes.flatMap(c => c.students.map(s => s.id))
StudentIds(cls) == Flatten(Map(cls, LAMBDA c : Ids(c.students)))

\* The counters importDatabase has set when it returns.
ImportedCounters(data) ==
  [users |-> MathMax(Ids(data.users)),
   classes |-> MathMax(Ids(data.classes)),
   subjects |-> MathMax(Ids(data.subjects)),
   schedules |-> MathMax(Ids(data.schedules)),
   attendance |-> MathMax(Ids(data.attendance)),
   students |-> MathMax(StudentIds(data.classes))]

\* c.students.map of a class that has no students array throws a TypeError.
ImportThrows(data) == \E k \in 1..Len(data.classes) : ~HasStudents(data.classes[k])

\* The counters when importDatabase throws at counters.students: the five before
\* it are set, counters.students is not.
CountersAtThrow(data) ==
  [users |-> MathMax(Ids(data.users)),
   classes |-> MathMax(Ids(data.classes)),
   subjects |-> MathMax(Ids(data.subjects)),
   schedules |-> MathMax(Ids(data.schedules)),
   attendance |-> MathMax(Ids(data.attendance)),
   students |-> counters.students]

\* importDatabase(importData); isExport says that importData is the exported object
\* itself, whose arrays the store then shares (again).  restoreDatabase calls it with
\* the parsed backup file and passes the error on.
ImportDatabase(data, isExport) ==
  /\ users' = data.users
  /\ classes' = data.classes
  /\ subjects' = data.subjects
  /\ schedules' = data.schedules
  /\ attendance' = data.attendance
  /\ settings' = data.settings
  /\ exported' = IF isExport THEN [taken |-> TRUE, live |-> TRUE, data |-> <<>>] ELSE Frozen
  /\ IF ImportThrows(data)
     THEN /\ counters' = CountersAtThrow(data)
          /\ response' = Resp("importDatabase", 500)
     ELSE /\ counters' = ImportedCounters(data)
          /\ response' = Resp("importDatabase", 200)
  /\ UNCHANGED pending

\* importDatabase(null): 'Invalid import data' is thrown before anything is changed.
ImportInvalid ==
  /\ response' = Resp("importDatabase", 500)
  /\ UNCHANGED <<users, classes, subjects, schedules, attendance, settings, counters,
                 pending, exported>>

(***************************************************************************)
(* Inputs of the requests.                                                 *)
(***************************************************************************)
RawClassIds == {Num(1), Str(1), Num(2)}
RawSubjectIds == {Num(1), Num(2)}
DateInputs == 1..(Today + 1)
AbsentInputs == {<<>>, <<1>>, <<3>>}

\* The counters stay within the bounds of the model.
Bounded ==
  /\ counters'.attendance <= MaxAttendance
  /\ counters'.users <= MaxUsers
  /\ counters'.classes <= MaxClasses
  /\ counters'.students <= MaxStudents
  /\ counters'.subjects <= MaxSubjects
  /\ counters'.schedules <= MaxSchedules

(***************************************************************************)
(* SpecSubmit: attendance submissions only.                                *)
(***************************************************************************)
\* history: the id of the record a triple got when it was first submitted.
FirstIdStep ==
  LET old == hist.firstId
      now == {Triple(attendance'[i]) : i \in 1..Len(attendance')}
  IN  hist' = [hist EXCEPT !.firstId =
                 [t \in (DOMAIN old) \cup now |->
                    IF t \in DOMAIN old THEN old[t]
                    ELSE attendance'[CHOOSE i \in 1..Len(attendance') :
                                       Triple(attendance'[i]) = t].id]]

SubmitNext ==
  /\ \/ \E u \in ActiveUsers, c \in RawClassIds, sj \in RawSubjectIds,
          d \in DateInputs, a \in AbsentInputs : PostAttendance(u, c, sj, d, a)
     \/ \E u \in ActiveUsers, c \in RawClassIds, sj \in RawSubjectIds,
          d \in DateInputs, a \in AbsentInputs : SubmitAttendance(u, c, sj, d, a)
  /\ Bounded
  /\ FirstIdStep

SpecSubmit == Init /\ [][SubmitNext]_vars

\* The records of the collection that carry the triple t.
RecordsOf(t) == {i \in 1..Len(attendance) : Triple(attendance[i]) = t}

\* C1: every triple that was ever submitted has exactly one record, and that
\* record carries the id the triple's first submission allocated.
C1_UpsertKeepsOneRecord ==
  \A t \in DOMAIN hist.firstId :
    /\ Cardinality(RecordsOf(t)) = 1
    /\ \A i \in RecordsOf(t) : attendance[i].id = hist.firstId[t]

\* C1 witness: a submission overwrote an older record after a later triple was added.
C1_Witness ==
  /\ response.op \in {"postAttendance", "submitAttendance"}
  /\ response.status = 201
  /\ Len(attendance) >= 2
  /\ \E id \in response.ids : id < counters.attendance

(***************************************************************************)
(* SpecAttendance: every way the attendance collection is written, with a  *)
(* roster that changes and backup files that are restored.                 *)
(***************************************************************************)
UserById(id) == {u \in ActiveUsers : u.id = id}

\* Bulk submissions: of an item that names no class, once and twice, and of an item
\* whose absent list names a student the class does not have.
BulkItems ==
  LET item == [classId |-> Absent, subjectId |-> Num(1), date |-> 1,
               absentStudents |-> <<>>]
      stranger == [classId |-> Num(1), subjectId |-> Num(2), date |-> 1,
                   absentStudents |-> <<3>>]
  IN  {<<item>>, <<item, item>>, <<stranger>>}

\* updateData of direct calls of the store's updateAttendanceRecord.
UpdateDataInputs ==
  {[keys |-> {"date"}, date |-> 1],
   [keys |-> {"absentStudents"}, absentStudents |-> <<2>>]}

\* A backup file that holds two records of one class, subject and date.
BackupFileTwice ==
  [users |-> SeedUsers, classes |-> SeedClasses, subjects |-> SeedSubjects,
   schedules |-> SeedSchedules,
   attendance |-> SeedAttendance \o <<[SeedAttendance[1] EXCEPT !.id = 2]>>,
   settings |-> SeedSettings]

WriteOps == {"postAttendance", "submitAttendance", "bulkSubmitAttendance",
             "putAttendance", "updateAttendanceRecord"}

\* The ids of the active students of the class of the record with this id.
RosterOf(att, cls, id) ==
  LET rec == att[RecordIndex(att, id)]
      classInfo == FindById(cls, rec.classId)
  IN  IF classInfo.id = 0 THEN {} ELSE Range(ActiveStudentIds(classInfo))

\* history: the active roster of a record's class when the record was last written.
WriteRosterStep ==
  LET old == hist.writeRoster
      kept == {attendance'[i].id : i \in 1..Len(attendance')} \cap DOMAIN old
  IN  hist' = [hist EXCEPT !.writeRoster =
        IF response'.op = "importDatabase" THEN <<>>
        ELSE IF response'.op \in WriteOps /\ response'.status \in {200, 201}
        THEN [id \in kept \cup response'.ids |->
                IF id \in response'.ids THEN RosterOf(attendance', classes', id)
                ELSE old[id]]
        ELSE [id \in kept |-> old[id]]]

AttendanceNext ==
  /\ \/ \E u \in UserById(1) \cup UserById(2), d \in 1..Today, a \in {<<>>, <<1>>} :
          PostAttendance(u, Num(1), Num(1), d, a)
     \/ \E u \in UserById(1), items \in BulkItems : BulkSubmitAttendance(u, items)
     \/ \E u \in UserById(1) \cup UserById(3), id \in {Str(1), Str(2)},
          a \in {<<>>, <<1>>} : PutAttendance(u, id, TRUE, a)
     \/ \E u \in UserById(1) : DeleteAttendance(u, Str(1))
     \/ \E id \in 1..2, updateData \in UpdateDataInputs :
          CallUpdateAttendanceRecord(id, updateData)
     \/ DeleteStudent(Str(1), Str(1))
     \/ ImportDatabase(BackupFileTwice, FALSE)
  /\ Bounded
  /\ WriteRosterStep

SpecAttendance == Init /\ [][AttendanceNext]_vars

\* C2: no two records of the collection carry the same class, subject and date.
C2_OneRecordPerTriple ==
  \A i, j \in 1..Len(attendance) :
    i # j => Triple(attendance[i]) # Triple(attendance[j])

UpdateStep ==
  /\ response'.op \in {"putAttendance", "updateAttendanceRecord"}
  /\ response'.status = 200

TriplesKept ==
  /\ Len(attendance') = Len(attendance)
  /\ \A i \in 1..Len(attendance) : Triple(attendance'[i]) = Triple(attendance[i])

\* C3 as stated: no update, whatever its updateData, changes a record's class,
\* subject or date.
C3_UpdateNeverMoves == [][UpdateStep => TriplesKept]_vars

\* C3 amended: an update whose updateData carries only absentStudents (or notes), as
\* the update endpoints build it, changes no record's class, subject or date.
C3_RouteUpdateNeverMoves ==
  [][(UpdateStep /\ response'.keys \subseteq {"absentStudents", "notes"}) => TriplesKept]_vars

\* C3 witness: the update endpoint has replaced the absent list of a record.
C3_Witness ==
  /\ response.op = "putAttendance" /\ response.status = 200
  /\ "absentStudents" \in response.keys
  /\ \E i \in 1..Len(attendance) :
       attendance[i].id \in response.ids /\ attendance[i].absentStudents # <<>>

\* C4: a record written by addAttendanceRecord or updateAttendanceRecord has no id in
\* both lists, and its two lists together cover the roster of that write.
C4_PresentComplementsAbsent ==
  \A i \in 1..Len(attendance) :
    attendance[i].id \in DOMAIN hist.writeRoster =>
      LET R == hist.writeRoster[attendance[i].id]
          present == Range(attendance[i].presentStudents)
          absent == Range(attendance[i].absentStudents)
      IN  /\ present \cap absent = {}
          /\ (present \cup absent) \cap R = R

\* C4 witness: a record written with an absent student and a present one, after the
\* roster had lost a student.
C4_Witness ==
  \E i \in 1..Len(attendance) :
    /\ attendance[i].id \in DOMAIN hist.writeRoster
    /\ attendance[i].absentStudents # <<>>
    /\ attendance[i].presentStudents # <<>>
    /\ attendance[i].totalStudents = 2
    /\ \E k \in 1..Len(classes) : Len(ActiveStudents(classes[k])) < 2

(***************************************************************************)
(* SpecClasses: classes are created and updated, students added and        *)
(* removed, through routes/classes.js.                                     *)
(***************************************************************************)
StudentIdInputs == {"ST3", "ST4"}

\* history: the student lists before the request, for the add-student requests.
ClassesBeforeStep == hist' = [hist EXCEPT !.before = classes]

ClassesNext ==
  /\ \/ \E studentIds \in {<<>>, <<"ST1", "ST2">>} : PostClass("10B", 2, 1, studentIds)
     \/ \E maxStudents \in {1, 3} : PutClass(Str(1), maxStudents)
     \/ DeleteClass(Str(2))
     \/ \E id \in {Str(1), Str(2)}, studentId \in StudentIdInputs : PostStudent(id, studentId)
     \/ \E sid \in {Str(1), Str(3)} : DeleteStudent(Str(1), sid)
  /\ Bounded
  /\ ClassesBeforeStep

SpecClasses == Init /\ [][ClassesNext]_vars

\* C5: every class has at most maxStudents active students, and an add-student
\* request to a class that is at its capacity is rejected and changes no student list.
C5_WithinCapacity ==
  /\ \A k \in 1..Len(classes) :
       Len(ActiveStudents(classes[k])) <= classes[k].maxStudents
  /\ response.op = "postStudent" =>
       \A k \in 1..Len(hist.before) :
         ClassFull(hist.before[k]) => classes[k].students = hist.before[k].students

(***************************************************************************)
(* User operations of the store and the requests of authController.        *)
(***************************************************************************)
UserFrame == UNCHANGED <<classes, subjects, schedules, attendance, settings, exported>>

\* findUser({username}): usernames are compared in lower case.
FindUserByUsername(username) ==
  LET i == FindIndex(users, LAMBDA x : ToLowerCase(x.username) = ToLowerCase(username))
  IN  IF i = 0 THEN NoRecord ELSE users[i]

\* findUser({email}): the stored email is compared as it is.
FindUserByEmail(email) ==
  LET i == FindIndex(users, LAMBDA x : x.email = email)
  IN  IF i = 0 THEN NoRecord ELSE users[i]

\* database.users.findIndex(user => user.id === parseInt(id))
UserIndex(id) == FindIndex(users, LAMBDA x : JsEq(x.id, id))

\* A faulty AllocatedUserId: the counter is read, not advanced.
AllocatedUserIdStale(cnt) == cnt.users

\* id: ++counters.users
AllocatedUserId(cnt) == Inc(cnt.users)

\* register of authController up to the await of createUser: both lookups, then
\* createUser allocates the id and suspends at bcrypt.hash.
RegisterBegin(username, email, role) ==
  LET op == "register"
      user == [id |-> AllocatedUserId(counters), username |-> ToLowerCase(username),
               email |-> ToLowerCase(email), role |-> role, isActive |-> TRUE]
  IN  IF FindUserByUsername(ToLowerCase(username)).id # 0 THEN Rejected(op, 409)
      ELSE IF FindUserByEmail(ToLowerCase(email)).id # 0 THEN Rejected(op, 409)
      ELSE /\ counters' = [counters EXCEPT !.users = Inc(@)]
           /\ pending' = pending \cup {user}
           /\ response' = RespIds("createUser", 0, {user.id})
           /\ UNCHANGED users
           /\ UserFrame

\* createUser after the hash: database.users.push(user), and register answers 201.
CreateUserResume(user) ==
  /\ user \in pending
  /\ users' = Append(users, user)
  /\ pending' = pending \ {user}
  /\ response' = RespIds("register", 201, {user.id})
  /\ UNCHANGED counters
  /\ UserFrame

\* updateProfile of authController with body {email}; "" stands for no email given.
UpdateProfile(u, email) ==
  LET op == "updateProfile"
      existingUser == FindUserByEmail(ToLowerCase(email))
      userIndex == UserIndex(u.id)
  IN  IF email # "" /\ existingUser.id # 0 /\ ~JsEq(existingUser.id, u.id)
      THEN Rejected(op, 409)
      ELSE IF userIndex = 0 THEN Rejected(op, 404)
      ELSE /\ users' = IF email # ""
                       THEN [users EXCEPT ![userIndex].email = ToLowerCase(email)]
                       ELSE users
           /\ response' = RespIds(op, 200, {u.id})
           /\ UNCHANGED <<counters, pending>>
           /\ UserFrame

\* Values a JSON body can give for isActive: none, true, false, the number 0 and the
\* string 'false'.
IsActiveInputs == {"undefined", "true", "false", "0", "'false'"}

\* Boolean(isActive)
BooleanOf(isActive) == isActive \in {"true", "'false'"}

\* isActive === false
StrictlyFalse(isActive) == isActive = "false"

\* updateUserById of authController with body {email, role, isActive}; NoString is
\* no email given, "undefined" no role or no isActive given.
UpdateUserByIdBody(u, id, body) ==
  LET op == "updateUserById"
      userId == ParseInt(id)
      userIndex == UserIndex(userId)
      email == body.email
      existingUser == FindUserByEmail(ToLowerCase(email))
      user == users[userIndex]
  IN  IF userId = NaN THEN Rejected(op, 400)
      ELSE IF userIndex = 0 THEN Rejected(op, 404)
      ELSE IF JsEq(userId, u.id) /\ StrictlyFalse(body.isActive) THEN Rejected(op, 400)
      ELSE IF email # "" /\ email # NoString /\ email # user.email
              /\ existingUser.id # 0 /\ ~JsEq(existingUser.id, userId)
      THEN Rejected(op, 409)
      ELSE /\ users' = [users EXCEPT ![userIndex] =
                [user EXCEPT
                   !.email = IF email # NoString THEN ToLowerCase(email) ELSE @,
                   !.role = IF body.role \in {"teacher", "principal"} THEN body.role
                            ELSE @,
                   !.isActive = IF body.isActive # "undefined"
                                THEN BooleanOf(body.isActive) ELSE @]]
           /\ response' = RespIds(op, 200, {userId})
           /\ UNCHANGED <<counters, pending>>
           /\ UserFrame

\* updateUserById of authController with body {email}; the email may be "".
UpdateUserById(u, id, email) ==
  UpdateUserByIdBody(u, id, [email |-> email, role |-> "undefined",
                             isActive |-> "undefined"])

\* deactivateUser of authController
DeactivateUser(u, id) ==
  LET op == "deactivateUser"
      userId == ParseInt(id)
      userIndex == UserIndex(userId)
  IN  IF userId = NaN THEN Rejected(op, 400)
      ELSE IF JsEq(userId, u.id) THEN Rejected(op, 400)
      ELSE IF userIndex = 0 THEN Rejected(op, 404)
      ELSE /\ users' = [users EXCEPT ![userIndex].isActive = FALSE]
           /\ response' = RespIds(op, 200, {userId})
           /\ UNCHANGED <<counters, pending>>
           /\ UserFrame

(***************************************************************************)
(* SpecUsers: register, profile-update, user-update and deactivate         *)
(* requests, interleaved at the await of createUser.                       *)
(***************************************************************************)
UsersNext ==
  /\ \/ \E username \in {"ann", "ANN"}, email \in {"a@x.edu", "b@x.edu"} :
          RegisterBegin(username, email, "teacher")
     \/ \E user \in pending : CreateUserResume(user)
     \/ \E u \in UserById(2) : UpdateProfile(u, "A@X.EDU")
     \/ \E u \in UserById(1), id \in {Str(2), Str(3)}, email \in {"", "b@x.edu"} :
          UpdateUserById(u, id, email)
     \/ \E u \in UserById(1) : DeactivateUser(u, Str(3))
  /\ Bounded
  /\ UNCHANGED hist

SpecUsers == Init /\ [][UsersNext]_vars

\* C6: no two user records have the same username in lower case, and no two have
\* the same email.
C6_UsernameAndEmailUnique ==
  \A i, j \in 1..Len(users) :
    i # j => /\ ToLowerCase(users[i].username) # ToLowerCase(users[j].username)
             /\ users[i].email # users[j].email

CreateSubject(code) ==
  /\ subjects' = Append(subjects, [id |-> Inc(counters.subjects), code |-> code,
                                   isActive |-> TRUE])
  /\ counters' = [counters EXCEPT !.subjects = Inc(@)]
  /\ response' = RespIds("createSubject", 201, {Inc(counters.subjects)})
  /\ UNCHANGED <<users, classes, schedules, attendance, settings, pending, exported>>

\* deleteSubject(id)
DeleteSubject(id) ==
  LET subjectIndex == FindIndex(subjects, LAMBDA x : JsEq(x.id, id))
  IN  IF subjectIndex = 0 THEN Rejected("deleteSubject", 404)
      ELSE /\ subjects' = [subjects EXCEPT ![subjectIndex].isActive = FALSE]
           /\ response' = RespIds("deleteSubject", 200, {id})
           /\ UNCHANGED <<users, classes, schedules, attendance, settings, counters,
                          pending, exported>>

\* createSchedule(scheduleData)
CreateSchedule(teacherId, classId, subjectId) ==
  /\ schedules' = Append(schedules, [id |-> Inc(counters.schedules),
                                     teacherId |-> teacherId, classId |-> classId,
                                     subjectId |-> subjectId, isActive |-> TRUE])
  /\ counters' = [counters EXCEPT !.schedules = Inc(@)]
  /\ response' = RespIds("createSchedule", 201, {Inc(counters.schedules)})
  /\ UNCHANGED <<users, classes, subjects, attendance, settings, pending, exported>>

\* deleteSchedule(id)
DeleteSchedule(id) ==
  LET scheduleIndex == FindIndex(schedules, LAMBDA x : JsEq(x.id, id))
  IN  IF scheduleIndex = 0 THEN Rejected("deleteSchedule", 404)
      ELSE /\ schedules' = [schedules EXCEPT ![scheduleIndex].isActive = FALSE]
           /\ response' = RespIds("deleteSchedule", 200, {id})
           /\ UNCHANGED <<users, classes, subjects, attendance, settings, counters,
                          pending, exported>>

(***************************************************************************)
(* SpecIds: records are created, soft-deleted and deleted in every         *)
(* collection, and the store is exported and imported.                     *)
(***************************************************************************)
\* The ids that the records of collection c carry.
IdsIn(c, us, cls, sj, sc, att) ==
  CASE c = "users" -> Range(Ids(us))
    [] c = "classes" -> Range(Ids(cls))
    [] c = "subjects" -> Range(Ids(sj))
    [] c = "schedules" -> Range(Ids(sc))
    [] c = "attendance" -> Range(Ids(att))
    [] c = "students" -> Range(StudentIds(cls))

\* The collection whose create answers with this op.
CreatedIn(op) ==
  CASE op = "register" -> "users"
    [] op = "postClass" -> "classes"
    [] op = "createSubject" -> "subjects"
    [] op = "createSchedule" -> "schedules"
    [] op = "postAttendance" -> "attendance"
    [] op = "postStudent" -> "students"
    [] OTHER -> "none"

\* history: the ids each collection has given to its records, and those it has given
\* a second time.  A create gives the id of its new record (an upsert that overwrites
\* gives none); an import brings records back and gives no ids.
IdsStep ==
  LET c == CreatedIn(response'.op)
      assigned ==
        IF c = "none" \/ response'.status # 201 THEN {}
        ELSE response'.ids \ IdsIn(c, users, classes, subjects, schedules, attendance)
  IN  hist' = [hist EXCEPT
        !.issued = IF assigned = {} THEN @ ELSE [@ EXCEPT ![c] = @ \cup assigned],
        !.reissued = IF assigned = {} THEN @
                     ELSE @ \cup {<<c, id>> : id \in assigned \cap hist.issued[c]},
        !.imported = @ \/ response'.op = "importDatabase"]

\* The number of ids given so far, over all collections.
IssuedCount(h) ==
  Cardinality(h.issued["users"]) + Cardinality(h.issued["classes"])
    + Cardinality(h.issued["subjects"]) + Cardinality(h.issued["schedules"])
    + Cardinality(h.issued["attendance"]) + Cardinality(h.issued["students"])

SeedIssued == IssuedCount(InitHist)

\* The run gives at most MaxCreated new ids.
IdsBounded == IssuedCount(hist') <= SeedIssued + MaxCreated

IdsNext ==
  /\ \/ \E u \in UserById(1) : PostAttendance(u, Num(1), Num(1), Today, <<>>)
     \/ \E u \in UserById(1), id \in {Str(1), Str(2)} : DeleteAttendance(u, id)
     \/ PostStudent(Str(1), "ST3")
     \/ DeleteStudent(Str(1), Str(3))
     \/ PostClass("10B", 2, 1, <<>>)
     \/ DeleteClass(Str(2))
     \/ RegisterBegin("ann", "a@x.edu", "teacher")
     \/ \E user \in pending : CreateUserResume(user)
     \/ \E u \in UserById(1) : DeactivateUser(u, Str(4))
     \/ CreateSubject("CHEM")
     \/ DeleteSubject(3)
     \/ CreateSchedule(3, 1, 1)
     \/ DeleteSchedule(3)
     \/ ExportDatabase
     \/ exported.taken /\ ImportDatabase(ExportedData, exported.live)
  /\ Bounded
  /\ IdsStep
  /\ IdsBounded

SpecIds == Init /\ [][IdsNext]_vars

\* C8 as stated: in no collection is an id given to a record after it had been given
\* to another one, imports included.
C8_IdsNeverReassigned == hist.reissued = {}

\* C8 amended: as long as the store has not been imported, in no collection is an id
\* given to a record after it had been given to another one.
C8_NoReuseBeforeImport == ~hist.imported => hist.reissued = {}

\* C8 witness: with no import so far, the record with id 1 was deleted and a record was
\* created after it, under a new id.
C8_Witness ==
  /\ ~hist.imported
  /\ hist.issued["attendance"] = {1, 2}
  /\ Range(Ids(attendance)) = {2}

(***************************************************************************)
(* SpecBackup: the store is exported, reset, imported and restored from    *)
(* backup files, between class and attendance requests.                    *)
(***************************************************************************)
\* A backup file whose class has no students array.
BackupFileBroken ==
  [users |-> SeedUsers,
   classes |-> <<[id |-> 2, name |-> "10B", classTeacher |-> 2, maxStudents |-> 3,
                  isActive |-> TRUE]>>,
   subjects |-> SeedSubjects, schedules |-> SeedSchedules, attendance |-> <<>>,
   settings |-> SeedSettings]

\* history: how far an export, a reset and an import of the exported object have
\* followed one another, and the store as it was exported.
PhaseStep(step) ==
  LET phase == CASE step = "export" -> "exported"
                 [] step = "reset" /\ hist.phase = "exported" -> "reset"
                 [] step = "import" /\ hist.phase = "reset" -> "imported"
                 [] OTHER -> "none"
  IN  hist' = [hist EXCEPT !.phase = phase,
                           !.saved = IF step = "export" THEN Snapshot
                                     ELSE IF phase = "none" THEN NotExported ELSE @]

BackupNext ==
  /\ \/ /\ \/ \E studentIds \in {<<>>, <<"ST5">>} : PostClass("10B", 2, 1, studentIds)
           \/ \E id \in {Str(1), Str(2)} : PostStudent(id, "ST3")
           \/ \E u \in UserById(1) : PostAttendance(u, Num(1), Num(1), Today, <<>>)
           \/ \E u \in UserById(1) : DeleteAttendance(u, Str(1))
           \/ ImportDatabase(BackupFileBroken, FALSE)
           \/ ImportInvalid
        /\ PhaseStep("other")
     \/ ExportDatabase /\ PhaseStep("export")
     \/ InitializeDatabase /\ PhaseStep("reset")
     \/ exported.taken /\ ImportDatabase(ExportedData, TRUE) /\ PhaseStep("import")
  /\ Bounded

SpecBackup == Init /\ [][BackupNext]_vars

\* C9: after an export, a reset and an import of the exported object, the store is the
\* store that was exported, and in every collection the counter is a number that no
\* id of the collection exceeds.
C9_RoundTripRestores ==
  (hist.phase = "imported" /\ response.status = 200) =>
    /\ Snapshot = hist.saved
    /\ \A c \in Collections :
         /\ counters[c] # NaN
         /\ \A id \in IdsIn(c, users, classes, subjects, schedules, attendance) :
              id <= counters[c]

\* C10: an importDatabase that raises an error leaves the collections, the settings
\* and the counters as they were before the call.
C10_ImportAllOrNothing ==
  [][(response'.op = "importDatabase" /\ response'.status = 500) =>
       UNCHANGED <<users, classes, subjects, schedules, attendance, settings, counters>>]_vars

(***************************************************************************)
(* SpecRoster: students are enrolled with a class, added, removed and      *)
(* restored.                                                               *)
(***************************************************************************)
\* Class.restoreStudent(studentId) of models/Class.js on the class with this id: the
\* student is found by id, must be inactive, and the class must not be full.
RestoreStudent(classId, studentId) ==
  LET op == "restoreStudent"
      classIndex == ClassIndex(classId)
      classData == classes[classIndex]
      studentIndex == FindIndex(classData.students, LAMBDA st : JsEq(st.id, studentId))
  IN  IF classIndex = 0 THEN Rejected(op, 404)
      ELSE IF studentIndex = 0 THEN Rejected(op, 404)
      ELSE IF classData.students[studentIndex].isActive THEN Rejected(op, 400)
      ELSE IF ClassFull(classData) THEN Rejected(op, 400)
      ELSE /\ classes' = [classes EXCEPT ![classIndex].students[studentIndex].isActive = TRUE]
           /\ response' = RespIds(op, 200, {studentId})
           /\ UNCHANGED counters
           /\ ClassFrame

RosterNext ==
  /\ \/ \E studentIds \in {<<>>, <<"ST5", "ST5">>} : PostClass("10B", 2, 3, studentIds)
     \/ \E studentId \in {"ST1", "ST3"} : PostStudent(Str(1), studentId)
     \/ \E sid \in {Str(1), Str(3)} : DeleteStudent(Str(1), sid)
     \/ \E studentId \in {1, 3} : RestoreStudent(1, studentId)
  /\ Bounded
  /\ UNCHANGED hist

SpecRoster == Init /\ [][RosterNext]_vars

\* C11: within each class no two active students have the same external studentId.
C11_ActiveStudentIdUnique ==
  \A k \in 1..Len(classes) :
    \A i, j \in 1..Len(classes[k].students) :
      (i # j /\ classes[k].students[i].isActive /\ classes[k].students[j].isActive)
        => classes[k].students[i].studentId # classes[k].students[j].studentId

\* C12: every id in a record's absentStudents was the id of an active student of the
\* record's class at the write that last produced the record.
C12_AbsentWereOnRoster ==
  \A i \in 1..Len(attendance) :
    attendance[i].id \in DOMAIN hist.writeRoster =>
      Range(attendance[i].absentStudents) \subseteq hist.writeRoster[attendance[i].id]

(***************************************************************************)
(* SpecPermission: teachers submit attendance, singly and in bulk, while   *)
(* schedule entries are withdrawn.                                         *)
(***************************************************************************)
\* A bulk submission for a class and subject the schedule gives to teacher1.
BulkOfOthers ==
  <<[classId |-> Num(1), subjectId |-> Num(1), date |-> Today, absentStudents |-> <<>>]>>

Teachers == {u \in ActiveUsers : u.role = "teacher"}

PermissionNext ==
  /\ \/ \E u \in Teachers, sj \in RawSubjectIds, d \in 1..Today :
          PostAttendance(u, Num(1), sj, d, <<>>)
     \/ \E u \in Teachers, c \in {Num(1), Str(1)}, sj \in RawSubjectIds :
          SubmitAttendance(u, c, sj, 1, <<>>)
     \/ \E u \in Teachers : BulkSubmitAttendance(u, BulkOfOthers)
     \/ \E id \in 1..2 : DeleteSchedule(id)
  /\ Bounded
  /\ UNCHANGED hist

SpecPermission == Init /\ [][PermissionNext]_vars

\* An active schedule entry gives the class and subject to the teacher, or the teacher
\* is the class teacher of the class.
Permitted(teacherId, classId, subjectId) ==
  \/ \E i \in 1..Len(schedules) :
        /\ schedules[i].isActive
        /\ schedules[i].teacherId = teacherId
        /\ schedules[i].classId = classId
        /\ schedules[i].subjectId = subjectId
  \/ \E k \in 1..Len(classes) :
        classes[k].id = classId /\ classes[k].classTeacher = teacherId

\* C13: every record that a teacher's submission creates or overwrites is for a class
\* and subject that the teacher is permitted at that moment.
C13_TeacherWritesPermitted ==
  [][(response'.op \in {"postAttendance", "submitAttendance", "bulkSubmitAttendance"}
        /\ response'.status = 201)
       => \A i \in 1..Len(attendance') :
            (attendance'[i].id \in response'.ids
               /\ findUserById(attendance'[i].teacherId).role = "teacher")
              => Permitted(attendance'[i].teacherId, attendance'[i].classId,
                           attendance'[i].subjectId)]_vars

(***************************************************************************)
(* SpecSubjects: subjects are deleted through routes/subjects.js while     *)
(* schedule entries and attendance records come and go.                    *)
(***************************************************************************)
\* getAllSchedules(filters): the active entries.  It filters by teacherId, classId
\* and dayOfWeek only; the subjectId the route passes is not looked at.
getAllSchedules == Filter(schedules, LAMBDA e : e.isActive)

\* if (filters.x): a number that is not 0, or a decimal string
RawTruthy(raw) == raw.t = "string" \/ (raw.t = "number" /\ Truthy(raw.v))

\* The filters of getAttendanceRecords, none given (dateRange is not modelled: no
\* caller of the model passes it).
NoFilters ==
  [classId |-> Absent, teacherId |-> Absent, subjectId |-> Absent, date |-> Undefined,
   studentId |-> Absent]

\* getAttendanceRecords(filters)
getAttendanceRecords(filters) ==
  Filter(attendance, LAMBDA r :
    /\ RawTruthy(filters.classId) => JsEq(r.classId, ParseInt(filters.classId))
    /\ RawTruthy(filters.teacherId) => JsEq(r.teacherId, ParseInt(filters.teacherId))
    /\ RawTruthy(filters.subjectId) => JsEq(r.subjectId, ParseInt(filters.subjectId))
    /\ filters.date # Undefined => r.date = filters.date
    /\ RawTruthy(filters.studentId) =>
          \/ Includes(r.absentStudents, ParseInt(filters.studentId))
          \/ Includes(r.presentStudents, ParseInt(filters.studentId)))

\* getAttendanceRecords({ subjectId }) of the subject routes
RecordsOfSubject(subjectId) ==
  getAttendanceRecords([NoFilters EXCEPT !.subjectId = Num(subjectId)])

\* A faulty SubjectInUse: the schedule is not consulted.
SubjectInUseByAttendance(subjectId) == Len(RecordsOfSubject(subjectId)) > 0

\* schedules.length > 0 || attendanceRecords.length > 0
SubjectInUse(subjectId) ==
  Len(getAllSchedules) > 0 \/ Len(RecordsOfSubject(subjectId)) > 0

\* router.delete('/:id') of routes/subjects.js
DeleteSubjectRequest(id) ==
  LET op == "deleteSubjectRequest"
      subjectId == ParseInt(id)
      subjectIndex == FindIndex(subjects, LAMBDA x : JsEq(x.id, subjectId))
  IN  IF subjectId = NaN THEN Rejected(op, 400)
      ELSE IF subjectIndex = 0 THEN Rejected(op, 404)
      ELSE IF SubjectInUse(subjectId)
      THEN /\ response' = RespIds(op, 409, {subjectId})
           /\ UNCHANGED <<users, classes, subjects, schedules, attendance, settings,
                          counters, pending, exported>>
      ELSE /\ subjects' = [subjects EXCEPT ![subjectIndex].isActive = FALSE]
           /\ response' = RespIds(op, 200, {subjectId})
           /\ UNCHANGED <<users, classes, schedules, attendance, settings, counters,
                          pending, exported>>

SubjectsNext ==
  /\ \/ \E id \in {Str(1), Str(2), Str(3)} : DeleteSubjectRequest(id)
     \/ CreateSubject("CHEM")
     \/ \E id \in 1..2 : DeleteSchedule(id)
     \/ \E u \in UserById(1) : PostAttendance(u, Num(1), Num(2), Today, <<>>)
     \/ \E u \in UserById(1), id \in {Str(1), Str(2)} : DeleteAttendance(u, id)
  /\ Bounded
  /\ UNCHANGED hist

SpecSubjects == Init /\ [][SubjectsNext]_vars

\* The request was to delete the subject with this id.
DeleteSubjectStep(id) == response'.op = "deleteSubjectRequest" /\ id \in response'.ids

SubjectKept == response'.status = 409 /\ subjects' = subjects

Chars(s) ==
  CASE s = "Ann" -> <<"A", "n", "n">>
    [] s = "Bob" -> <<"B", "o", "b">>
    [] s = "Cy" -> <<"C", "y">>
    [] s = "Dan" -> <<"D", "a", "n">>
    [] s = "Eve" -> <<"E", "v", "e">>
    [] s = "ST1" -> <<"S", "T", "1">>
    [] s = "ST2" -> <<"S", "T", "2">>
    [] s = "ST3" -> <<"S", "T", "3">>
    [] s = "ST4" -> <<"S", "T", "4">>
    [] s = "ST5" -> <<"S", "T", "5">>
    [] s = "a@x.edu" -> <<"a", "@", "x", ".", "e", "d", "u">>
    [] s = "b@x.edu" -> <<"b", "@", "x", ".", "e", "d", "u">>
    [] s = "d@x.edu" -> <<"d", "@", "x", ".", "e", "d", "u">>
    [] s = "AN" -> <<"A", "N">>
    [] s = "st" -> <<"s", "t">>
    [] s = "X.E" -> <<"X", ".", "E">>
    [] OTHER -> <<>>

LowerChar(c) ==
  CASE c = "A" -> "a" [] c = "B" -> "b" [] c = "C" -> "c" [] c = "D" -> "d"
    [] c = "E" -> "e" [] c = "N" -> "n" [] c = "S" -> "s" [] c = "T" -> "t"
    [] c = "X" -> "x"
    [] OTHER -> c

\* String.prototype.toLowerCase on the characters of s
LowerChars(s) == Map(Chars(s), LAMBDA c : LowerChar(c))

\* String.prototype.includes on character sequences
CharsInclude(hay, needle) ==
  \E i \in 0..(Len(hay) - Len(needle)) : SubSeq(hay, i + 1, i + Len(needle)) = needle

\* text.toLowerCase().includes(searchTerm)
FieldIncludes(text, searchTerm) == CharsInclude(LowerChars(text), searchTerm)

\* The part of the condition of searchStudents that is evaluated before
\* student.email is read.
MatchesBeforeEmail(student, searchTerm) ==
  \/ FieldIncludes(student.name, searchTerm)
  \/ FieldIncludes(student.studentId, searchTerm)

\* The entry that searchStudents pushes for a student of cls.
SearchEntry(cls, student) ==
  [id |-> student.id, studentId |-> student.studentId, classId |-> cls.id,
   className |-> cls.name]

\* The classes that searchStudents walks: database.classes, active or not.
SearchedClasses == classes

\* searchStudents(query): every class of the collection is walked, whatever its
\* isActive; an active student that matches neither by name nor by studentId and
\* has no email makes student.email.toLowerCase() throw, which ends the walk.
searchStudents(query) ==
  LET searchTerm == LowerChars(query)
      Hit(student) ==
        /\ student.isActive
        /\ \/ MatchesBeforeEmail(student, searchTerm)
           \/ FieldIncludes(student.email, searchTerm)
      OfClass(cls) ==
        IF HasStudents(cls)
        THEN Map(Filter(cls.students, Hit), LAMBDA st : SearchEntry(cls, st))
        ELSE <<>>
      threw ==
        \E k \in 1..Len(SearchedClasses) :
          /\ HasStudents(SearchedClasses[k])
          /\ \E j \in 1..Len(SearchedClasses[k].students) :
               LET student == SearchedClasses[k].students[j]
               IN  /\ student.isActive
                   /\ ~MatchesBeforeEmail(student, searchTerm)
                   /\ student.email = NoString
  IN  IF threw THEN [threw |-> TRUE, results |-> <<>>]
      ELSE [threw |-> FALSE,
            results |-> Flatten(Map(SearchedClasses, OfClass))]

\* router.get('/search/students') of routes/classes.js; the default limit of 20 is
\* above every number of students of the model.  The response carries the class ids
\* and the studentIds of the entries.
SearchStudentsRequest(query) ==
  LET op == "searchStudents"
      found == searchStudents(query)
  IN  IF Len(Chars(query)) < 2 THEN Rejected(op, 400)
      ELSE IF found.threw THEN Rejected(op, 500)
      ELSE /\ response' =
                [RespIds(op, 200,
                         {found.results[i].classId : i \in 1..Len(found.results)})
                   EXCEPT !.keys =
                     {found.results[i].studentId : i \in 1..Len(found.results)}]
           /\ UNCHANGED <<users, classes, subjects, schedules, attendance, settings,
                          counters, pending, exported>>

SearchQueries == {"AN", "st", "X.E"}

SearchNext ==
  /\ \/ \E studentIds \in {<<>>, <<"ST4">>} : PostClass("10B", 2, 3, studentIds)
     \/ \E id \in {Str(1), Str(2)} : DeleteClass(id)
     \/ \E studentId \in {"ST3", "ST4"} : PostStudent(Str(1), studentId)
     \/ \E sid \in {Str(1), Str(3)} : DeleteStudent(Str(1), sid)
     \/ \E query \in SearchQueries : SearchStudentsRequest(query)
  /\ Bounded
  /\ UNCHANGED hist

SpecSearch == Init /\ [][SearchNext]_vars

\* What the search is to return: the active students of the active classes whose
\* name, studentId or e-mail address contains the query, whatever the case.
ExpectedStudents(query) ==
  LET searchTerm == LowerChars(query)
      Wanted(student) ==
        /\ student.isActive
        /\ \/ FieldIncludes(student.name, searchTerm)
           \/ FieldIncludes(student.studentId, searchTerm)
           \/ (student.email # NoString /\ FieldIncludes(student.email, searchTerm))
      OfClass(cls) ==
        IF cls.isActive /\ HasStudents(cls)
        THEN Map(Filter(cls.students, Wanted), LAMBDA st : SearchEntry(cls, st))
        ELSE <<>>
  IN  Flatten(Map(classes, OfClass))

\* C15: searchStudents(query) returns exactly the active students of the active
\* classes whose name, studentId or e-mail address contains the query without
\* regard to case: no student of a soft-deleted class and no inactive student.
C15_SearchReturnsActiveOfActive ==
  \A query \in SearchQueries :
    searchStudents(query) = [threw |-> FALSE, results |-> ExpectedStudents(query)]

\* ---------------------------------------------------------------------------
\* Change events of the attendance requests
\* ---------------------------------------------------------------------------

\* The handlers that serve requests on attendance records.
AttendanceRequests ==
  {"postAttendance", "submitAttendance", "bulkSubmitAttendance", "putAttendance",
   "deleteAttendance"}

\* The event a handler is to emit for its change.
EventOf(op) == IF op = "deleteAttendance" THEN "attendanceDeleted" ELSE "attendanceUpdated"

\* C16: every request that creates, overwrites, updates or deletes an attendance
\* record has emitted its change event (attendanceUpdated, attendanceDeleted) by the
\* time its response is sent, and a request that fails has emitted nothing.
C16_ChangesAreBroadcast ==
  [][response'.op \in AttendanceRequests =>
       IF response'.status \in {200, 201}
       THEN response'.events = <<EventOf(response'.op)>>
       ELSE response'.events = <<>>]_vars

\* ---------------------------------------------------------------------------
\* Submissions under a running clock
\* ---------------------------------------------------------------------------

MaxClock == 2

\* The latest instant a record of the store was stamped with.
RECURSIVE LastStamp(_)
LastStamp(att) ==
  IF att = <<>> THEN Epoch
  ELSE IF Head(att).updatedAt > LastStamp(Tail(att)) THEN Head(att).updatedAt
  ELSE LastStamp(Tail(att))

\* What the new Date() of one addAttendanceRecord can give: instants that never go
\* back, neither within the call nor behind the stamps of the store.
ClockReads ==
  {clock \in (1..MaxClock) \X (1..MaxClock) \X (1..MaxClock) :
     /\ LastStamp(attendance) <= clock[1]
     /\ clock[1] <= clock[2]
     /\ clock[2] <= clock[3]}

StampNext ==
  /\ \/ \E u \in UserById(2), date \in {1, 2}, absentStudents \in {<<>>, <<1>>},
             clock \in ClockReads :
          SubmitAttendanceAt(u, Num(1), Num(1), date, absentStudents, clock)
     \/ \E u \in UserById(1), subjectId \in {Num(1), Num(2)}, clock \in ClockReads :
          PostAttendanceAt(u, Num(1), subjectId, Today, <<>>, clock)
     \/ \E u \in UserById(1), id \in {Str(1), Str(2)} : DeleteAttendance(u, id)
  /\ Bounded
  /\ UNCHANGED hist

SpecStamp == Init /\ [][StampNext]_vars

\* A step of submitAttendance or of the route that wrote a record.
SubmitStep ==
  /\ response'.op \in {"submitAttendance", "postAttendance"}
  /\ response'.status = 201

\* The record the step wrote, and where its triple stood in the collection before
\* (0: nowhere).
WrittenIndex == CHOOSE i \in 1..Len(attendance') : attendance'[i].id \in response'.ids
TripleIndexBefore == ExistingIndex(attendance, attendance'[WrittenIndex])

\* The record of the triple keeps its id, its createdAt and its place; the others
\* are as they were.
OverwriteFrame ==
  /\ attendance'[TripleIndexBefore].id = attendance[TripleIndexBefore].id
  /\ attendance'[TripleIndexBefore].createdAt = attendance[TripleIndexBefore].createdAt
  /\ Len(attendance') = Len(attendance)
  /\ \A j \in 1..Len(attendance) :
       j # TripleIndexBefore => attendance'[j] = attendance[j]

\* One record is appended, under an id that no record holds.
AppendFrame ==
  /\ Len(attendance') = Len(attendance) + 1
  /\ SubSeq(attendance', 1, Len(attendance)) = attendance
  /\ WrittenIndex = Len(attendance')
  /\ \A j \in 1..Len(attendance) : attendance[j].id # attendance'[WrittenIndex].id

\* C17: a submission for a triple that has a record keeps the record's id and
\* original createdAt, the length of the collection and every other record; a
\* submission for a triple without a record appends exactly one record with a newly
\* allocated id and createdAt equal to updatedAt.
C17_UpsertFrame ==
  [][SubmitStep =>
       IF TripleIndexBefore # 0 THEN OverwriteFrame
       ELSE /\ AppendFrame
            /\ attendance'[WrittenIndex].createdAt = attendance'[WrittenIndex].updatedAt]_vars

\* ---------------------------------------------------------------------------
\* Soft deletion: deleteClass, deleteSubject, deleteSchedule and the views
\* ---------------------------------------------------------------------------

findScheduleById(id) == FindById(schedules, id)

\* getAllClasses(), getAllSubjects() without filters
getAllClasses == Filter(classes, LAMBDA cls : cls.isActive)
getAllSubjects == Filter(subjects, LAMBDA subject : subject.isActive)

SoftDeletes == {"deleteClass", "deleteSubject", "deleteSchedule"}

\* findById and the default findAll view of the collection a soft delete works on.
FoundById(op, id) ==
  CASE op = "deleteClass" -> findClassById(id)
    [] op = "deleteSubject" -> findSubjectById(id)
    [] op = "deleteSchedule" -> findScheduleById(id)

DefaultView(op) ==
  CASE op = "deleteClass" -> getAllClasses
    [] op = "deleteSubject" -> getAllSubjects
    [] op = "deleteSchedule" -> getAllSchedules

\* The history of the soft deletes: which calls went through once, which twice,
\* and the call of the last step with whether its record existed.
SoftDeleteStep(op, id) ==
  hist' = [hist EXCEPT
             !.deleted = IF response'.status = 200 THEN @ \cup {<<op, id>>} ELSE @,
             !.twice = IF response'.status = 200 /\ <<op, id>> \in hist.deleted
                       THEN @ \cup {<<op, id>>} ELSE @,
             !.last = <<op, id, FoundById(op, id).id # 0>>]

SoftDeleteNext ==
  /\ \/ \E id \in 1..2 : DeleteClass(Str(id)) /\ SoftDeleteStep("deleteClass", id)
     \/ \E id \in {2, 3} : DeleteSubject(id) /\ SoftDeleteStep("deleteSubject", id)
     \/ \E id \in {2} : DeleteSchedule(id) /\ SoftDeleteStep("deleteSchedule", id)
     \/ PostClass("10B", 2, 3, <<>>) /\ hist' = [hist EXCEPT !.last = <<>>]
     \/ CreateSubject("CHEM") /\ hist' = [hist EXCEPT !.last = <<>>]
  /\ Bounded

SpecSoftDelete == Init /\ [][SoftDeleteNext]_vars

\* The record is there for findById and inactive, and the default view has no
\* record of its id.
InactiveButFound(op, id) ==
  /\ FoundById(op, id).id = id
  /\ ~FoundById(op, id).isActive
  /\ \A i \in 1..Len(DefaultView(op)) : DefaultView(op)[i].id # id

\* C18: a soft delete (deleteClass, deleteSubject, deleteSchedule) of a record that
\* exists succeeds, the first time and again, and leaves the record inactive;
\* afterwards findById still returns the inactive record and the default findAll
\* view does not contain it.
C18_SoftDeleteIdempotent ==
  /\ \A key \in hist.deleted : InactiveButFound(key[1], key[2])
  /\ (hist.last # <<>> /\ hist.last[3]) =>
        /\ response.status = 200
        /\ <<hist.last[1], hist.last[2]>> \in hist.deleted

\* A record was soft-deleted a second time.
C18_Witness ==
  /\ hist.last # <<>>
  /\ <<hist.last[1], hist.last[2]>> \in hist.twice
  /\ response.status = 200
  /\ InactiveButFound(hist.last[1], hist.last[2])

\* ---------------------------------------------------------------------------
\* Statistics: getAttendanceStatistics of utils/database.js
\* ---------------------------------------------------------------------------

\* stats.x += ... over the records, on the numbers to add
RECURSIVE SumOf(_)
SumOf(numbers) ==
  IF numbers = <<>> THEN 0 ELSE Head(numbers) + SumOf(Tail(numbers))

\* Two decimal digits of n < 100
TwoDigits(n) == IF n < 10 THEN "0" \o ToString(n) ELSE ToString(n)

\* A faulty ToFixed2: the percentage rounded to a whole number.
ToFixed0(present, total) == ToString((200 * present + total) \div (2 * total))

\* ((present / total) * 100).toFixed(2): the string of the percentage with two
\* decimals, the nearest hundredth and the larger one of two that are as near.
\* The quotient is taken exactly.
ToFixed2(present, total) ==
  LET hundredths == (20000 * present + total) \div (2 * total)
  IN  ToString(hundredths \div 100) \o "." \o TwoDigits(hundredths % 100)

\* getAttendanceStatistics(filters), without the summaries by class, subject and day
getAttendanceStatistics(filters) ==
  LET records == getAttendanceRecords(filters)
      totalStudents == SumOf(Map(records, LAMBDA r : r.totalStudents))
      totalPresent == SumOf(Map(records, LAMBDA r : Len(r.presentStudents)))
      totalAbsent == SumOf(Map(records, LAMBDA r : Len(r.absentStudents)))
  IN  [totalRecords |-> Len(records),
       totalStudents |-> totalStudents,
       totalPresent |-> totalPresent,
       totalAbsent |-> totalAbsent,
       attendanceRate |-> IF totalStudents > 0 THEN ToFixed2(totalPresent, totalStudents)
                          ELSE "0"]

\* A call of getAttendanceStatistics({classId, subjectId}); the response names the
\* class and the subject asked for.
GetAttendanceStatistics(classId, subjectId) ==
  /\ response' = [Resp("getAttendanceStatistics", 200) EXCEPT
                    !.ids = {ParseInt(classId)},
                    !.keys = {ParseInt(subjectId)},
                    !.body = getAttendanceStatistics(
                               [NoFilters EXCEPT !.classId = classId,
                                                 !.subjectId = subjectId])]
  /\ UNCHANGED <<users, classes, subjects, schedules, attendance, settings, counters,
                 pending, exported>>

\* A class of twenty students, and no attendance taken yet.
StatsClasses ==
  << [id |-> 1, name |-> "10A", classTeacher |-> 2, maxStudents |-> 30,
      isActive |-> TRUE,
      students |-> [i \in 1..20 |-> Student(i, "ST" \o ToString(i))]] >>

StatsInit ==
  /\ users = SeedUsers
  /\ classes = StatsClasses
  /\ subjects = SeedSubjects
  /\ schedules = SeedSchedules
  /\ attendance = <<>>
  /\ settings = SeedSettings
  /\ counters = [SeedCounters EXCEPT !.attendance = 0, !.students = 20]
  /\ pending = {}
  /\ exported = NotExported
  /\ response = NoResponse
  /\ hist = InitHist

\* The absent lists of the submissions: nobody, five students, three students.
StatsAbsentInputs == {<<>>, <<1, 2, 3, 4, 5>>, <<16, 17, 18, 19, 20>>, <<7, 8, 9>>}

StatsNext ==
  /\ \/ \E u \in UserById(1), subjectId \in {Num(1), Str(2)}, date \in DateInputs,
             absentStudents \in StatsAbsentInputs :
          SubmitAttendance(u, Num(1), subjectId, date, absentStudents)
     \/ \E u \in UserById(1), id \in {Str(1), Str(2)} : DeleteAttendance(u, id)
     \/ \E subjectId \in {Num(1), Str(2)} : GetAttendanceStatistics(Str(1), subjectId)
  /\ counters'.attendance <= MaxAttendance
  /\ UNCHANGED hist

SpecStatistics == StatsInit /\ [][StatsNext]_vars

\* The records of the class and the subject are two, of different dates, one with
\* five of twenty students absent and one with none of twenty absent.
TwoRecordExample(classId, subjectId) ==
  LET records == Filter(attendance, LAMBDA r : r.classId = classId
                                               /\ r.subjectId = subjectId)
      Is(r, absent) == /\ Cardinality(Range(r.absentStudents)) = absent
                       /\ Len(r.absentStudents) = absent
                       /\ Len(r.presentStudents) = 20 - absent
                       /\ r.totalStudents = 20
  IN  /\ Len(records) = 2
      /\ records[1].date # records[2].date
      /\ \/ Is(records[1], 5) /\ Is(records[2], 0)
         \/ Is(records[1], 0) /\ Is(records[2], 5)

\* C19: with exactly two records of one class and subject, of different dates, one
\* with 5 absent of 20 and one with 0 absent of 20, getAttendanceStatistics for that
\* class and subject reports totalRecords = 2, totalPresent = 35, totalAbsent = 5 and
\* attendanceRate = 87.50 (the string that toFixed(2) gives).
C19_StatisticsOfTheExample ==
  \A classId \in 1..MaxClasses, subjectId \in 1..MaxSubjects :
    TwoRecordExample(classId, subjectId) =>
      LET stats == getAttendanceStatistics(
                     [NoFilters EXCEPT !.classId = Num(classId),
                                       !.subjectId = Num(subjectId)])
      IN  /\ stats.totalRecords = 2
          /\ stats.totalPresent = 35
          /\ stats.totalAbsent = 5
          /\ stats.attendanceRate = "87.50"

\* The statistics were asked for a class and subject that are in the example.
C19_Witness ==
  /\ response.op = "getAttendanceStatistics"
  /\ \E classId \in response.ids, subjectId \in response.keys :
       TwoRecordExample(classId, subjectId)
  /\ response.body.totalRecords = 2
  /\ response.body.attendanceRate = "87.50"

\* ---------------------------------------------------------------------------
\* A student's history: getStudentAttendanceHistory of utils/database.js
\* ---------------------------------------------------------------------------

\* A faulty SortByDateDesc: the entries stay in the order of the store.
Unsorted(entries) == entries

\* entry goes before the first of the sorted entries that is not dated after it.
InsertByDateDesc(entry, sorted) ==
  LET k == FindIndex(sorted, LAMBDA e : e.date <= entry.date)
  IN  IF k = 0 THEN Append(sorted, entry)
      ELSE SubSeq(sorted, 1, k - 1) \o <<entry>> \o SubSeq(sorted, k, Len(sorted))

\* studentHistory.sort((a, b) => new Date(b.date) - new Date(a.date)): newest first,
\* entries of one date in the order they had.
RECURSIVE SortByDateDesc(_)
SortByDateDesc(entries) ==
  IF entries = <<>> THEN <<>>
  ELSE InsertByDateDesc(Head(entries), SortByDateDesc(Tail(entries)))

\* The entry pushed for a record that has the student.
HistoryEntry(record, isPresent) ==
  [date |-> record.date, classId |-> record.classId, subjectId |-> record.subjectId,
   status |-> IF isPresent THEN "present" ELSE "absent",
   submittedAt |-> record.submittedAt]

\* getStudentAttendanceHistory(studentId, filters)
getStudentAttendanceHistory(studentId, filters) ==
  LET records == getAttendanceRecords(filters)
      IsPresent(record) == Includes(record.presentStudents, ParseInt(studentId))
      IsAbsent(record) == Includes(record.absentStudents, ParseInt(studentId))
      studentHistory ==
        Map(Filter(records, LAMBDA r : IsPresent(r) \/ IsAbsent(r)),
            LAMBDA r : HistoryEntry(r, IsPresent(r)))
  IN  SortByDateDesc(studentHistory)

\* A call of getStudentAttendanceHistory(studentId); the response names the student.
GetStudentAttendanceHistory(studentId) ==
  /\ response' = [Resp("getStudentAttendanceHistory", 200) EXCEPT
                    !.ids = {ParseInt(studentId)},
                    !.body = getStudentAttendanceHistory(studentId, NoFilters)]
  /\ UNCHANGED <<users, classes, subjects, schedules, attendance, settings, counters,
                 pending, exported>>

HistoryNext ==
  /\ \/ \E u \in UserById(1), subjectId \in {Num(1), Num(2)}, date \in {1, 2},
             absentStudents \in {<<>>, <<2>>, <<3>>} :
          SubmitAttendance(u, Num(1), subjectId, date, absentStudents)
     \/ PostStudent(Str(1), "ST3")
     \/ \E studentId \in {Num(2), Str(3)} : GetStudentAttendanceHistory(studentId)
  /\ counters'.attendance <= MaxAttendance + 1
  /\ counters'.students <= MaxStudents
  /\ UNCHANGED hist

SpecHistory == Init /\ [][HistoryNext]_vars

Mentions(record, studentId) ==
  Includes(record.presentStudents, studentId) \/ Includes(record.absentStudents, studentId)

\* Record a has the student present, record b has the student absent, their dates
\* differ and no other record mentions the student.
PresentThenAbsent(studentId, a, b) ==
  /\ a # b
  /\ Includes(attendance[a].presentStudents, studentId)
  /\ Includes(attendance[b].absentStudents, studentId)
  /\ attendance[a].date # attendance[b].date
  /\ \A k \in 1..Len(attendance) : k \notin {a, b} => ~Mentions(attendance[k], studentId)

\* C20: for a student who is present in record A and absent in record B, of
\* different dates, and whom no other record mentions, getStudentAttendanceHistory
\* returns exactly two entries, the later date first, with status "present" for the
\* date of A and "absent" for the date of B.
C20_HistoryOfTwoRecords ==
  \A studentId \in 1..MaxStudents, a \in 1..Len(attendance), b \in 1..Len(attendance) :
    PresentThenAbsent(studentId, a, b) =>
      LET history == getStudentAttendanceHistory(Num(studentId), NoFilters)
      IN  /\ Len(history) = 2
          /\ history[1].date > history[2].date
          /\ \A i \in 1..2 :
               /\ history[i].date = attendance[a].date => history[i].status = "present"
               /\ history[i].date = attendance[b].date => history[i].status = "absent"
          /\ {history[1].date, history[2].date} = {attendance[a].date, attendance[b].date}

\* The history of such a student was asked for while a third record is in the
\* store, and A is the older record.
C20_Witness ==
  /\ response.op = "getStudentAttendanceHistory"
  /\ Len(attendance) = 3
  /\ \E studentId \in response.ids, a \in 1..Len(attendance), b \in 1..Len(attendance) :
       /\ PresentThenAbsent(studentId, a, b)
       /\ attendance[a].date < attendance[b].date
       /\ Len(response.body) = 2
       /\ response.body[1].status = "absent"
       /\ response.body[2].status = "present"

\* ---------------------------------------------------------------------------
\* Ownership of attendance records: whose records a teacher's request touches
\* ---------------------------------------------------------------------------

\* history: the user the request of the step was authenticated as.
RequestBy(u) == hist' = [hist EXCEPT !.requester = u.id]

OwnershipNext ==
  \/ \E u \in UserById(1), d \in 1..Today :
       PostAttendance(u, Num(1), Num(2), d, <<>>) /\ RequestBy(u) /\ Bounded
  \/ \E u \in Teachers, sj \in {Num(1), Num(2)}, d \in 1..Today :
       PostAttendance(u, Num(1), sj, d, <<>>) /\ RequestBy(u) /\ Bounded
  \/ \E u \in Teachers, sj \in {Num(1), Num(2)} :
       SubmitAttendance(u, Num(1), sj, Today, <<>>) /\ RequestBy(u) /\ Bounded
  \/ \E u \in Teachers : BulkSubmitAttendance(u, BulkOfOthers) /\ RequestBy(u) /\ Bounded
  \/ \E u \in Teachers, id \in {Str(1), Str(2)}, a \in {<<>>, <<1>>} :
       PutAttendance(u, id, TRUE, a) /\ RequestBy(u) /\ Bounded
  \/ \E u \in Teachers, id \in {Str(1), Str(2)} :
       DeleteAttendance(u, id) /\ RequestBy(u) /\ Bounded

SpecOwnership == Init /\ [][OwnershipNext]_vars

\* The records of other users are in the store after the step as they were before.
OthersRecordsKept(userId) ==
  \A i \in 1..Len(attendance) :
    attendance[i].teacherId # userId =>
      \E j \in 1..Len(attendance') : attendance'[j] = attendance[i]

\* C21: a request of a teacher, through the update, delete, single-submit and
\* bulk-submit endpoints, never changes or removes an attendance record whose
\* teacherId was another user's id before the request.
C21_TeacherLeavesOthersRecords ==
  [][(\E u \in Teachers : u.id = hist'.requester) => OthersRecordsKept(hist'.requester)]_vars

\* ---------------------------------------------------------------------------
\* A principal's requests on the own account and on others
\* ---------------------------------------------------------------------------

Principals == {u \in ActiveUsers : u.role = "principal"}

\* The bodies of the user-update requests: isActive alone, or a role alone.
UserUpdateBodies ==
  {[email |-> NoString, role |-> "undefined", isActive |-> isActive] :
     isActive \in IsActiveInputs}
  \cup {[email |-> NoString, role |-> role, isActive |-> "undefined"] :
          role \in {"teacher", "principal", "admin"}}

PrincipalNext ==
  \/ \E u \in Principals : RegisterBegin("ann", "a@x.edu", "principal") /\ RequestBy(u)
                           /\ Bounded
  \/ \E user \in pending : CreateUserResume(user) /\ UNCHANGED hist
  \/ \E u \in Principals, id \in {Str(1), Str(2), Str(4)}, body \in UserUpdateBodies :
       UpdateUserByIdBody(u, id, body) /\ RequestBy(u) /\ Bounded
  \/ \E u \in Principals, id \in {Str(1), Str(4)} :
       DeactivateUser(u, id) /\ RequestBy(u) /\ Bounded
  \/ \E u \in UserById(2) : UpdateProfile(u, "A@X.EDU") /\ RequestBy(u) /\ Bounded

SpecPrincipal == Init /\ [][PrincipalNext]_vars

\* C22: no request authenticated as user U, through updateUserById or through
\* deactivateUser and whatever the body gives for isActive, leaves U's own isActive
\* flag false.
C22_NoSelfDeactivation ==
  [][response'.op \in {"updateUserById", "deactivateUser"} =>
       \A i \in 1..Len(users') : users'[i].id = hist'.requester => users'[i].isActive]_vars

\* C23: from the seeded store on, in every state that register, updateUserById,
\* deactivateUser and updateProfile requests reach, at least one user has the role
\* principal and is active.
C23_SomePrincipalActive ==
  \E i \in 1..Len(users) : users[i].role = "principal" /\ users[i].isActive

\* ---------------------------------------------------------------------------
\* Tokens: generateToken, authenticateToken and requireRole of middleware/auth.js
\* ---------------------------------------------------------------------------

\* The payload that generateToken signs for a user: the id and the role of the
\* record at that moment.
generateToken(user) == [id |-> user.id, role |-> user.role]

\* login of authController for the user of this name, with the right password: the
\* token goes to the client; hist.tokens holds the tokens issued and not expired.
Login(username) ==
  LET op == "login"
      user == FindUserByUsername(username)
  IN  IF user.id = 0 \/ ~user.isActive
      THEN Rejected(op, 401) /\ UNCHANGED hist
      ELSE /\ response' = RespIds(op, 200, {user.id})
           /\ hist' = [hist EXCEPT !.tokens = @ \cup {generateToken(user)}]
           /\ UNCHANGED <<users, classes, subjects, schedules, attendance, settings,
                          counters, pending, exported>>

\* A faulty authenticateToken that does not look at isActive.
AuthenticateAnyUser(decoded) ==
  IF findUserById(decoded.id).id = 0 THEN NoRecord ELSE decoded

\* authenticateToken for a token that verifies: req.user is the decoded payload
\* (with isActive and lastLogin of the record); NoRecord stands for the 401.
authenticateToken(decoded) ==
  LET user == findUserById(decoded.id)
  IN  IF user.id = 0 \/ ~user.isActive THEN NoRecord ELSE decoded

\* requireRole(allowedRoles) on req.user
requireRole(allowedRoles, reqUser) == reqUser.role \in allowedRoles

\* A request with this token on a route mounted behind authenticateToken and guarded
\* by requireRole(allowedRoles); 200 stands for reaching the handler.
GuardedRequest(decoded, allowedRoles) ==
  LET reqUser == authenticateToken(decoded)
      status == IF reqUser.id = 0 THEN 401
                ELSE IF ~requireRole(allowedRoles, reqUser) THEN 403
                ELSE 200
  IN  /\ response' = [Resp("guardedRequest", status) EXCEPT
                        !.body = [decoded |-> decoded, allowedRoles |-> allowedRoles]]
      /\ UNCHANGED <<users, classes, subjects, schedules, attendance, settings,
                     counters, pending, exported, hist>>

TokenNext ==
  \/ \E username \in {"admin", "teacher1", "teacher2"} : Login(username)
  \/ \E u \in UserById(1), id \in {Str(2), Str(3)},
        body \in {[email |-> NoString, role |-> role, isActive |-> isActive] :
                    role \in {"undefined", "teacher", "principal"},
                    isActive \in {"undefined", "true"}} :
       UpdateUserByIdBody(u, id, body) /\ UNCHANGED hist
  \/ \E u \in UserById(1), id \in {Str(2), Str(3)} : DeactivateUser(u, id) /\ UNCHANGED hist
  \/ \E decoded \in hist.tokens,
        allowedRoles \in {{"principal"}, {"teacher", "principal"}} :
       GuardedRequest(decoded, allowedRoles)

SpecTokens == Init /\ [][TokenNext]_vars

\* C24: a request passes requireRole(allowedRoles) only if the role on the user's
\* record at the time of the request is in allowedRoles; a token issued before a
\* change of role grants no more than the present role.
C24_RoleOfTheRecordDecides ==
  (response.op = "guardedRequest" /\ response.status = 200) =>
     findUserById(response.body.decoded.id).role \in response.body.allowedRoles

\* C25: while a user is inactive, every request with a token issued to that user is
\* answered 401 by authenticateToken and reaches no handler behind it.
C25_InactiveUserRejected ==
  (response.op = "guardedRequest"
     /\ ~findUserById(response.body.decoded.id).isActive) => response.status = 401

\* A token that was issued to a user who is inactive now was presented.
C25_Witness ==
  /\ response.op = "guardedRequest"
  /\ response.body.decoded \in hist.tokens
  /\ ~findUserById(response.body.decoded.id).isActive
  /\ response.status = 401

\* ---------------------------------------------------------------------------
\* Deleting a subject that nothing refers to
\* ---------------------------------------------------------------------------

\* C26: a delete request for an existing subject that no schedule entry and no
\* attendance record refers to succeeds and marks the subject inactive, whatever
\* schedule entries and records refer to other subjects.
C26_UnreferencedSubjectDeleted ==
  [][\A id \in 1..MaxSubjects :
       (DeleteSubjectStep(id)
          /\ (\A i \in 1..Len(schedules) : schedules[i].subjectId # id)
          /\ (\A i \in 1..Len(attendance) : attendance[i].subjectId # id))
         => (response'.status = 200
               /\ \A i \in 1..Len(subjects') : subjects'[i].id = id => ~subjects'[i].isActive)]_vars

\* ---------------------------------------------------------------------------
\* Listing attendance: router.get('/') of routes/attendance.js
\* ---------------------------------------------------------------------------

\* if (q) filters.x = parseInt(q) for a query parameter: a string, or not given.
QueryFilter(q) == IF q.t = "string" THEN Num(ParseInt(q)) ELSE Absent

\* One of the tests of getAttendanceRecords holds, so that records is the array
\* that a .filter() made; otherwise records is database.attendance itself.
FilterApplied(filters) ==
  \/ RawTruthy(filters.classId) \/ RawTruthy(filters.teacherId)
  \/ RawTruthy(filters.subjectId) \/ RawTruthy(filters.studentId)
  \/ filters.date # Undefined

\* GET /api/attendance: the filters are built from the query, a teacher's are
\* narrowed to the own records, and records.sort(...) sorts what
\* getAttendanceRecords returned, in place.
GetAttendance(u, query) ==
  LET built == [classId |-> QueryFilter(query.classId),
                teacherId |-> QueryFilter(query.teacherId),
                subjectId |-> QueryFilter(query.subjectId),
                date |-> query.date,
                studentId |-> QueryFilter(query.studentId)]
      filters == IF u.role = "teacher" THEN [built EXCEPT !.teacherId = Num(u.id)]
                 ELSE built
      records == SortByDateDesc(getAttendanceRecords(filters))
  IN  /\ attendance' = IF FilterApplied(filters) THEN attendance ELSE records
      /\ response' = [Resp("getAttendance", 200) EXCEPT
                        !.body = Map(records, LAMBDA r : r.id)]
      /\ UNCHANGED <<users, classes, subjects, schedules, settings, counters, pending,
                     exported>>

ListingQueries ==
  {[NoFilters EXCEPT !.classId = c, !.teacherId = t, !.date = d] :
     c \in {Absent, Str(1), Str(0)}, t \in {Absent, Str(2)}, d \in {Undefined, 1}}

ListingNext ==
  /\ \/ \E u \in UserById(1), subjectId \in {Num(1), Num(2)}, date \in {1, 2},
             absentStudents \in {<<>>, <<2>>} :
          PostAttendance(u, Num(1), subjectId, date, absentStudents)
     \/ \E u \in UserById(1), id \in {Str(1), Str(2)} : DeleteAttendance(u, id)
     \/ \E u \in ActiveUsers, query \in ListingQueries : GetAttendance(u, query)
  /\ counters'.attendance <= MaxAttendance + 1
  /\ UNCHANGED hist

SpecListing == Init /\ [][ListingNext]_vars

\* C27: a request that lists attendance changes nothing in the store; the store holds
\* the same records in the same order after it, for every combination of filters,
\* none included.
C27_ListingChangesNothing ==
  [][response'.op = "getAttendance" =>
       UNCHANGED <<users, classes, subjects, schedules, attendance, settings, counters>>]_vars

\* ---------------------------------------------------------------------------
\* The counts of a record
\* ---------------------------------------------------------------------------

\* C28: every record of the collection, as its last write left it, has as many
\* present and absent students together as its totalStudents says.
C28_ListsAddUpToTotal ==
  \A i \in 1..Len(attendance) :
    Len(attendance[i].presentStudents) + Len(attendance[i].absentStudents)
      = attendance[i].totalStudents

\* ---------------------------------------------------------------------------
\* The ids of the embedded students
\* ---------------------------------------------------------------------------

\* C29: every student embedded in a class has an integer id that the student counter
\* allocated, and no two students of the store have the same id.
C29_StudentIdsAllocatedOnce ==
  LET ids == StudentIds(classes)
  IN  /\ \A i \in 1..Len(ids) : ids[i] \in 1..counters.students
      /\ \A i, j \in 1..Len(ids) : i # j => ids[i] # ids[j]

\* ---------------------------------------------------------------------------
\* The search raises no error
\* ---------------------------------------------------------------------------

\* C30: in every reachable state searchStudents(query) returns a list and raises no
\* error, for every query, a state with an active student that was added without an
\* e-mail address included.
C30_SearchRaisesNothing ==
  \A query \in SearchQueries : ~searchStudents(query).threw

====
